---------------------------- MODULE Spec2Model ----------------------------
(***************************************************************************)
(* Portfolio construction and weighting engine of bbg_api                  *)
(* (portfolio_constructor.py, portfolio_weights.py).                       *)
(*                                                                         *)
(* Numbers.  A float is modelled as an exact rational <<n, d>> with d > 0  *)
(* in lowest terms; NaN is <<0, 0>>; a value that is present (survives     *)
(* dropna) but that pd.to_numeric(errors='coerce') turns into NaN is       *)
(* <<1, 0>>.  A pandas Series is a function from its index labels to       *)
(* values; a DataFrame is a function from row labels to Series.  Dates are *)
(* month numbers (the loader keeps one month-end row per month, sorted),   *)
(* NaT is 0.  Assets are 1..n in column order.                             *)
(***************************************************************************)
EXTENDS Integers, Sequences, FiniteSets, TLC

\* ------------------------------------------------------------------ bounds
NAssets == 3
NDates == 3
MaxPrice == 2
\* price level of the low-volatility price table
CalmPrice == 3
MaxScore == 2
MaxLookback == 2
\* np.sqrt is taken to 1/SqrtScale; the optimizer's result lies on a grid of 1/GridSteps
SqrtScale == 100
SqrtCap == 40000
GridSteps == 2
\* len(common_tickers) < 10; int(n * 0.3) is (n * 3) \div 10
MinTickers == 10
BucketNum == 3
BucketDen == 10
\* columns of the tables given to construct_conditional_portfolio
NCondAssets == 11
\* target_volatility=0.15, in percent
TargetVolPct == 15
\* returns.cov() * 12
Annualize == 12

\* ------------------------------------------------------------- rationals
NaN == <<0, 0>>
NotNumeric == <<1, 0>>
\* +inf (a positive price over a price of 0): it is not NaN for dropna, and
\* the arithmetic below turns it into NaN as the covariance computation does
Inf == <<1, 0>>
NaT == 0
None == -1

Abs(n) == IF n < 0 THEN -n ELSE n

RECURSIVE GCD(_, _)
GCD(a, b) == IF b = 0 THEN a ELSE GCD(b, a % b)

Rat(n, d) ==
  LET s == IF d < 0 THEN -1 ELSE 1
      g == GCD(Abs(n), Abs(d))
  IN  <<(s * n) \div g, (s * d) \div g>>

Zero == <<0, 1>>
One == <<1, 1>>

IsNaN(x) == x[2] = 0
\* the operands are in lowest terms; the common factors are taken out before
\* the products are formed
Add(x, y) ==
  IF IsNaN(x) \/ IsNaN(y) THEN NaN
  ELSE LET g == GCD(x[2], y[2])
       IN  Rat(x[1] * (y[2] \div g) + y[1] * (x[2] \div g), (x[2] \div g) * y[2])
Sub(x, y) == IF IsNaN(x) \/ IsNaN(y) THEN NaN ELSE Add(x, <<0 - y[1], y[2]>>)
Mul(x, y) ==
  IF IsNaN(x) \/ IsNaN(y) THEN NaN
  ELSE LET g1 == GCD(Abs(x[1]), y[2])
           g2 == GCD(Abs(y[1]), x[2])
       IN  <<(x[1] \div g1) * (y[1] \div g2), (x[2] \div g2) * (y[2] \div g1)>>
\* x / y for y # 0 (the callers guard the zero case as the code does)
Div(x, y) ==
  IF IsNaN(x) \/ IsNaN(y) THEN NaN
  ELSE Mul(x, IF y[1] < 0 THEN <<0 - y[2], 0 - y[1]>> ELSE <<y[2], y[1]>>)
Lt(x, y) == x[1] * y[2] < y[1] * x[2]
Le(x, y) == x[1] * y[2] <= y[1] * x[2]

\* pandas sum(): NaN entries are skipped, the sum of nothing is 0
RECURSIVE SumSkipNa(_, _)
SumSkipNa(s, S) ==
  IF S = {} THEN Zero
  ELSE LET a == CHOOSE x \in S : TRUE
           rest == SumSkipNa(s, S \ {a})
       IN  IF IsNaN(s[a]) THEN rest ELSE Add(s[a], rest)

SeriesSum(s) == SumSkipNa(s, DOMAIN s)

EmptySeries == [a \in {} |-> NaN]

\* ser.reindex(labels): labels outside the Series' index become NaN
Reindex(s, labels) == [a \in labels |-> IF a \in DOMAIN s THEN s[a] ELSE NaN]

\* Series.dropna(): the labels whose value is not NaN
DropNa(s) == [a \in {x \in DOMAIN s : s[x] # NaN} |-> s[a]]

\* pd.to_numeric(s, errors='coerce')
ToNumeric(s) == [a \in DOMAIN s |-> IF IsNaN(s[a]) THEN NaN ELSE s[a]]

\* ------------------------------------------------- single-factor selection
\* valid_scores.nlargest(n) / nsmallest(n), keep='first': the n best values,
\* ties going to the label that comes first in the Series
Before(s, asc, b, a) ==
  \/ (IF asc THEN Lt(s[b], s[a]) ELSE Lt(s[a], s[b]))
  \/ (s[a] = s[b] /\ b < a)

NBest(valid, n, asc) ==
  {a \in DOMAIN valid : Cardinality({b \in DOMAIN valid : Before(valid, asc, b, a)}) < n}

\* variant: top_n is ignored and every valid score is selected
ActualTopNAll(top_n, v) == v

ActualTopN(top_n, v) == IF top_n # None THEN (IF top_n < v THEN top_n ELSE v) ELSE v

\* The head shared by the three weighting functions for a Series of scores:
\* early (the empty Series is returned) or the selected tickers
SelectTopN(scores, top_n, sort_ascending) ==
  LET valid_scores == DropNa(scores)
      actual_top_n == ActualTopN(top_n, Cardinality(DOMAIN valid_scores))
  IN  IF Cardinality(DOMAIN valid_scores) = 0 \/ actual_top_n = 0
      THEN [early |-> TRUE, selected_tickers |-> {}]
      ELSE [early |-> FALSE,
            selected_tickers |-> NBest(valid_scores, actual_top_n, sort_ascending)]

\* ---------------------------------------------------------- equal_weight
\* A call's outcome: the exception raised ("" for none), the Series returned
\* and the function's local selected_tickers.
Returned(w, sel) == [raised |-> "", weights |-> w, selected_tickers |-> sel]
Raised(e, sel) == [raised |-> e, weights |-> EmptySeries, selected_tickers |-> sel]

\* weights[selected_tickers] = 1.0 / len(selected_tickers)
AssignEqual(weights, selected_tickers) ==
  [a \in DOMAIN weights |->
     IF a \in selected_tickers THEN Rat(1, Cardinality(selected_tickers)) ELSE weights[a]]

\* variant: the Series starts at 1.0 instead of 0.0
OneSeries(labels) == [a \in labels |-> One]

ZeroSeries(labels) == [a \in labels |-> Zero]

\* is_series: scores_or_tickers is a pd.Series of scores; otherwise it is a
\* list of already selected tickers (given here as the set of its members)
equal_weight(is_series, scores_or_tickers, top_n, sort_ascending) ==
  IF is_series
  THEN LET sel == SelectTopN(scores_or_tickers, top_n, sort_ascending)
       IN  IF sel.early THEN Returned(EmptySeries, {})
           ELSE Returned(AssignEqual(ZeroSeries(DOMAIN scores_or_tickers),
                                     sel.selected_tickers),
                         sel.selected_tickers)
  ELSE IF Cardinality(scores_or_tickers) = 0
       THEN Raised("ZeroDivisionError", {})
       ELSE Returned(AssignEqual(ZeroSeries(scores_or_tickers), scores_or_tickers),
                     scores_or_tickers)


\* ------------------------------------------------------ market_cap_weight
\* variant: missing values are left missing
KeepNa(s) == s

FillNa0(s) == [a \in DOMAIN s |-> IF IsNaN(s[a]) THEN Zero ELSE s[a]]

\* lines 88-100: market_cap_data is the capitalization row of the date
MarketCapAssign(weights, selected_tickers, market_cap_data) ==
  IF ~(selected_tickers \subseteq DOMAIN market_cap_data)
  THEN Raised("KeyError", selected_tickers)
  ELSE LET mcap_selected == FillNa0([a \in selected_tickers |-> market_cap_data[a]])
           total_mcap == SeriesSum(mcap_selected)
       IN  IF Le(total_mcap, Zero)
           THEN IF Cardinality(selected_tickers) = 0
                THEN Raised("ZeroDivisionError", selected_tickers)
                ELSE Returned(AssignEqual(weights, selected_tickers), selected_tickers)
           ELSE Returned([a \in DOMAIN weights |->
                            IF a \in selected_tickers
                            THEN Div(mcap_selected[a], total_mcap)
                            ELSE weights[a]],
                         selected_tickers)

market_cap_weight(is_series, scores_or_tickers, top_n, market_cap_data, sort_ascending) ==
  IF is_series
  THEN LET sel == SelectTopN(scores_or_tickers, top_n, sort_ascending)
       IN  IF sel.early THEN Returned(EmptySeries, {})
           ELSE MarketCapAssign(ZeroSeries(DOMAIN scores_or_tickers),
                                sel.selected_tickers, market_cap_data)
  ELSE MarketCapAssign(ZeroSeries(DOMAIN market_cap_data), scores_or_tickers,
                       market_cap_data)


\* ------------------------------------------------------- price history
RECURSIVE SortedSeq(_)
SortedSeq(S) ==
  IF S = {} THEN << >>
  ELSE LET m == CHOOSE x \in S : \A y \in S : x <= y
       IN  <<m>> \o SortedSeq(S \ {m})

\* price_data[(index >= current_date - DateOffset(months=lookback_months)) &
\*            (index <= current_date)]: the index holds month-end dates, so the
\* row of month current_date - lookback_months is inside the window
LookbackDates(price_data, current_date, lookback_months) ==
  SortedSeq({d \in DOMAIN price_data :
               d >= current_date - lookback_months /\ d <= current_date})

CountNotNa(price_data, dates, a) ==
  Cardinality({i \in 1..Len(dates) : ~IsNaN(price_data[dates[i]][a])})

\* pct_change(fill_method=None) of row i (i >= 2) of the window
PctChange(price_data, dates, i, a) ==
  LET p == price_data[dates[i]][a]
      q == price_data[dates[i - 1]][a]
  IN  IF IsNaN(p) \/ IsNaN(q) THEN NaN
      ELSE IF q = Zero THEN (IF p = Zero THEN NaN ELSE Inf)
      ELSE Sub(Div(p, q), One)

RECURSIVE SumOver(_, _, _)
SumOver(f, S, acc) ==
  IF S = {} THEN acc
  ELSE LET i == CHOOSE x \in S : TRUE IN SumOver(f, S \ {i}, Add(acc, f[i]))

\* returns.cov() * 12 over the return rows `rows` (indices into dates) for the
\* columns cols: the sample covariance (ddof = 1), NaN with a single row
CovMatrix(price_data, dates, rows, cols) ==
  LET n == Cardinality(rows)
      ret == [a \in cols |-> [i \in rows |-> PctChange(price_data, dates, i, a)]]
      mean == [a \in cols |-> Div(SumOver(ret[a], rows, Zero), Rat(n, 1))]
  IN  [a \in cols |-> [b \in cols |->
        IF n < 2 THEN NaN
        ELSE LET term == [i \in rows |->
                            Mul(Sub(ret[a][i], mean[a]), Sub(ret[b][i], mean[b]))]
             IN  Mul(Div(SumOver(term, rows, Zero), Rat(n - 1, 1)), Rat(Annualize, 1))]]

\* floor square root of a natural number m < SqrtCap^2, by bisection:
\* lo * lo <= m < hi * hi
RECURSIVE ISqrtIn(_, _, _)
ISqrtIn(m, lo, hi) ==
  IF hi - lo <= 1 THEN lo
  ELSE LET mid == (lo + hi) \div 2
       IN  IF mid * mid <= m THEN ISqrtIn(m, mid, hi) ELSE ISqrtIn(m, lo, mid)

\* np.sqrt(x) for x > 0, to 1/SqrtScale
Sqrt(x) == Rat(ISqrtIn((x[1] * SqrtScale * SqrtScale) \div x[2], 0, SqrtCap), SqrtScale)

\* --------------------------------------------- volatility_scaling_weight
\* variant: every weight is moved by f instead of multiplied by it
Shifted(s, f) == [a \in DOMAIN s |-> Add(s[a], f)]

Scale(s, f) == [a \in DOMAIN s |-> Mul(s[a], f)]

\* the assets of a Series that carry a weight other than 0 (and NaN -> 0)
Weighted(s, labels) == {a \in labels : ~IsNaN(s[a]) /\ s[a] # Zero}

\* np.dot(w, np.dot(cov, w)) with both reindexed to common_assets and NaN -> 0;
\* held are the common assets with a weight other than 0: the other terms are 0
PortfolioVariance(initial_weights, cov, held) ==
  LET c(a, b) == IF IsNaN(cov[a][b]) THEN Zero ELSE cov[a][b]
      row == [a \in held |->
                LET t == [b \in held |-> Mul(c(a, b), initial_weights[b])]
                IN  Mul(initial_weights[a], SumOver(t, held, Zero))]
  IN  SumOver(row, held, Zero)

\* variant: the scaled weights are always halved
Halve(scaled_weights) == [a \in DOMAIN scaled_weights |-> Mul(scaled_weights[a], Rat(1, 2))]

\* variant: the scaled weights are never normalized
NoNormalize(scaled_weights) == scaled_weights

\* lines 164-166: if scaled_weights.sum() > 1, divide by the sum
Normalize(scaled_weights) ==
  IF Lt(One, SeriesSum(scaled_weights))
  THEN Scale(scaled_weights, Div(One, SeriesSum(scaled_weights)))
  ELSE scaled_weights

\* lines 121-127 and 133: price_subset.dropna(axis=1), the columns with no
\* missing price in the lookback window; they index returns_cov_matrix
CovarianceAssets(price_data, current_date, lookback_months) ==
  LET dates == LookbackDates(price_data, current_date, lookback_months)
      columns == IF Len(dates) = 0 THEN {} ELSE DOMAIN price_data[dates[1]]
  IN  {a \in columns : CountNotNa(price_data, dates, a) = Len(dates)}

\* line 134: the rows of pct_change().dropna(), as positions in the window;
\* with no column left no row holds a NaN and all rows stay
ReturnRows(price_data, current_date, lookback_months) ==
  LET dates == LookbackDates(price_data, current_date, lookback_months)
      kept == CovarianceAssets(price_data, current_date, lookback_months)
  IN  IF kept = {} THEN 1..Len(dates)
      ELSE {i \in 2..Len(dates) : \A a \in kept : PctChange(price_data, dates, i, a) # NaN}

\* variant: the volatility is never found to be 0
UnitVolatility(initial_weights, price_data, current_date, lookback_months) == One

\* lines 140-151: current_volatility; only the rows and columns of the
\* covariance that carry a weight other than 0 are read
CurrentVolatility(initial_weights, price_data, current_date, lookback_months) ==
  LET dates == LookbackDates(price_data, current_date, lookback_months)
      common_assets == DOMAIN initial_weights
                         \cap CovarianceAssets(price_data, current_date, lookback_months)
      held == Weighted(initial_weights, common_assets)
      cov == CovMatrix(price_data, dates,
                       ReturnRows(price_data, current_date, lookback_months), held)
      portfolio_variance == PortfolioVariance(initial_weights, cov, held)
  IN  IF Lt(Zero, portfolio_variance) THEN Sqrt(portfolio_variance) ELSE Zero

volatility_scaling_weight(initial_weights, price_data, current_date, target_volatility, lookback_months) ==
  LET dates == LookbackDates(price_data, current_date, lookback_months)
      rows == ReturnRows(price_data, current_date, lookback_months)
      \* initial_weights.index.intersection(returns_cov_matrix.index)
      common_assets == DOMAIN initial_weights
                         \cap CovarianceAssets(price_data, current_date, lookback_months)
      current_volatility ==
        CurrentVolatility(initial_weights, price_data, current_date, lookback_months)
      scaled_weights == Scale(initial_weights, Div(target_volatility, current_volatility))
  IN  IF SeriesSum(initial_weights) = Zero THEN initial_weights
      ELSE IF Len(dates) < 2 THEN initial_weights
      ELSE IF Cardinality(rows) = 0 THEN initial_weights
      ELSE IF common_assets = {} THEN initial_weights
      ELSE IF current_volatility = Zero THEN initial_weights
      ELSE Normalize(scaled_weights)

\* ----------------------------------------------- minimum_variance_weight
\* scipy.optimize.minimize(method='SLSQP', bounds (0, 1), sum = 1, maxiter 1000):
\* either it reports success with a point of the feasible set, or it fails
\* (result.success false, or an exception): every outcome is possible
GridVals == {Rat(k, GridSteps) : k \in 0..GridSteps}
Feasible(available_tickers) ==
  {x \in [available_tickers -> GridVals] : SeriesSum(x) = One}

MinVarOptimize(weights, selected_tickers, available_tickers) ==
  {Returned([a \in DOMAIN weights |->
               IF a \in available_tickers THEN x[a] ELSE weights[a]],
            selected_tickers) : x \in Feasible(available_tickers)}
  \cup {Returned(AssignEqual(weights, available_tickers), selected_tickers)}

\* line 231: dropna(axis=1, thresh=len(price_subset) // 2) keeps the selected
\* columns with at least that many prices in the window
AvailableTickers(selected_tickers, price_data, current_date, lookback_months) ==
  LET dates == LookbackDates(price_data, current_date, lookback_months)
  IN  {a \in selected_tickers : CountNotNa(price_data, dates, a) >= Len(dates) \div 2}

\* line 240: pct_change(fill_method=None).dropna(), the rows of the window
\* with every return of the available tickers present
MinVarRows(selected_tickers, price_data, current_date, lookback_months) ==
  LET dates == LookbackDates(price_data, current_date, lookback_months)
      available_tickers ==
        AvailableTickers(selected_tickers, price_data, current_date, lookback_months)
  IN  {i \in 2..Len(dates) :
         \A a \in available_tickers : PctChange(price_data, dates, i, a) # NaN}

\* lines 217-294, after the selection; the set of the possible outcomes
MinVarAssign(weights, selected_tickers, price_data, current_date, lookback_months) ==
  LET dates == LookbackDates(price_data, current_date, lookback_months)
      columns == IF Len(dates) = 0 THEN {} ELSE DOMAIN price_data[dates[1]]
      available_tickers ==
        AvailableTickers(selected_tickers, price_data, current_date, lookback_months)
      rows == MinVarRows(selected_tickers, price_data, current_date, lookback_months)
      equal == IF Cardinality(selected_tickers) = 0
               THEN {Raised("ZeroDivisionError", selected_tickers)}
               ELSE {Returned(AssignEqual(weights, selected_tickers), selected_tickers)}
  IN  IF Len(dates) < 2 THEN equal
      ELSE IF ~(selected_tickers \subseteq columns)
           THEN {Raised("KeyError", selected_tickers)}
      ELSE IF Cardinality(available_tickers) < 2 THEN equal
      ELSE IF Cardinality(rows) < 2 THEN equal
      \* line 250, outside the try: np.linalg.eigvals raises LinAlgError on a
      \* covariance that holds NaN, which is what an infinite return gives
      ELSE IF \E i \in rows : \E a \in available_tickers :
                PctChange(price_data, dates, i, a) = Inf
           THEN {Raised("LinAlgError", selected_tickers)}
      ELSE MinVarOptimize(weights, selected_tickers, available_tickers)

minimum_variance_weight(is_series, scores_or_tickers, top_n, price_data, current_date, lookback_months, sort_ascending) ==
  IF is_series
  THEN LET sel == SelectTopN(scores_or_tickers, top_n, sort_ascending)
       IN  IF sel.early THEN {Returned(EmptySeries, {})}
           ELSE MinVarAssign(ZeroSeries(DOMAIN scores_or_tickers), sel.selected_tickers,
                             price_data, current_date, lookback_months)
  ELSE MinVarAssign(ZeroSeries(scores_or_tickers), scores_or_tickers,
                    price_data, current_date, lookback_months)


\* ------------------------------------- conditional (triple-sort) selection
\* s[tickers].sort_values(ascending=False) as a sequence.  The tickers come
\* from list(set(...)) and the sort is not stable, so the order of equal
\* scores is any order: tie is the order this run happens to produce.
RECURSIVE SortDesc(_, _, _)
SortDesc(s, tickers, tie) ==
  IF tickers = {} THEN << >>
  ELSE LET m == CHOOSE x \in tickers : \A y \in tickers \ {x} :
                  \/ Lt(s[y], s[x])
                  \/ (s[y] = s[x] /\ tie[x] < tie[y])
       IN  <<m>> \o SortDesc(s, tickers \ {m}, tie)

\* sorted.head(n).index and sorted.tail(n).index as sets (TailOneMore is the
\* variant that takes one row more)
Head_(sorted, n) == {sorted[i] : i \in 1..(IF n < Len(sorted) THEN n ELSE Len(sorted))}
TailOneMore(sorted, n) ==
  {sorted[i] : i \in (IF n + 1 < Len(sorted) THEN Len(sorted) - n ELSE 1)..Len(sorted)}
Tail_(sorted, n) ==
  {sorted[i] : i \in (IF n < Len(sorted) THEN Len(sorted) - n + 1 ELSE 1)..Len(sorted)}

Max(a, b) == IF a > b THEN a ELSE b

\* lines 147-154: the value split of the common tickers
ValueBuckets(value_scores, common_tickers, tie) ==
  LET n_tickers == Cardinality(common_tickers)
      value_high_n == (n_tickers * BucketNum) \div BucketDen
      value_low_n == (n_tickers * BucketNum) \div BucketDen
      value_sorted == SortDesc(value_scores, common_tickers, tie)
      high == Head_(value_sorted, value_high_n)
      low == Tail_(value_sorted, value_low_n)
  IN  [high |-> high, neutral |-> (common_tickers \ high) \ low, low |-> low]

\* lines 168-186: the momentum (or profitability) split inside a value group
NestedBuckets(scores, value_tickers, tie) ==
  LET high_n == Max(1, (Cardinality(value_tickers) * BucketNum) \div BucketDen)
      low_n == Max(1, (Cardinality(value_tickers) * BucketNum) \div BucketDen)
      sorted == SortDesc(scores, value_tickers, tie)
      high == Head_(sorted, high_n)
      low == Tail_(sorted, low_n)
  IN  [high |-> high, neutral |-> (value_tickers \ high) \ low, low |-> low]

Groups == {"high", "neutral", "low"}

\* lines 157-199: conditional_portfolios, the non-empty intersections by name
ConditionalPortfolios(value_scores, momentum_scores, profitability_scores, common_tickers, tie) ==
  LET v == ValueBuckets(value_scores, common_tickers, tie)
      m == [vg \in Groups |-> NestedBuckets(momentum_scores, v[vg], tie)]
      q == [vg \in Groups |-> NestedBuckets(profitability_scores, v[vg], tie)]
      cell == [n \in Groups \X Groups \X Groups |->
                 v[n[1]] \cap m[n[1]][n[2]] \cap q[n[1]][n[3]]]
  IN  [name \in {n \in Groups \X Groups \X Groups : v[n[1]] # {} /\ cell[n] # {}} |->
         cell[name]]

\* variant: the momentum group is not consulted
BuyAnyMomentum(conditional_portfolios) ==
  UNION {conditional_portfolios[name] :
           name \in {n \in DOMAIN conditional_portfolios : n[1] = "high" /\ n[3] # "low"}}

\* lines 203-211 and 225: final_tickers
BuyEligible(conditional_portfolios) ==
  UNION {conditional_portfolios[name] :
           name \in {n \in DOMAIN conditional_portfolios :
                       n[1] = "high" /\ n[2] # "low" /\ n[3] # "low"}}


\* ------------------------------------------------------------------ state
VARIABLES
  cfg,                  \* the entry point called and its arguments
  all_price_date,       \* PriceTable: date -> asset -> price
  composition_data,     \* UniverseTable: date -> asset -> flag
  factor,               \* construct_portfolio's factor table
  value_factor, momentum_factor, profitability_factor,
  market_cap_data,      \* CapitalizationTable (read only when cfg.has_mcap)
  pc,                   \* "constructed", "loop", "done", "raised"; "call", "returned"
  filtered_dates,       \* sequence of dates
  rebalance_period,     \* RebalanceMap: date -> anchor (NaT when unset)
  todo,                 \* anchors the loop has not reached yet
  portfolio_weights,    \* anchor -> the weights computed at it
  selection,            \* anchor -> the tickers selected at it
  weights,              \* WeightSchedule: date -> asset -> weight
  portfolio_returns,    \* date -> return
  portfolio_value,      \* PortfolioValueSeries: date -> value
  previous_weights,     \* the loop's previous_weights
  live,                 \* FactorCalculator: id(df) -> the table living at that id
  quantile_cache,       \* FactorCalculator._quantile_cache: key -> bounds
  caller_tables,        \* the index of the caller's price and universe tables:
                        \* as given to the constructor, and as it is now
  call, ret             \* a direct call of a weighting function and its outcome;
                        \* ret also holds the error a run ended with

vars == <<cfg, all_price_date, composition_data, factor, value_factor, momentum_factor,
          profitability_factor, market_cap_data, pc, filtered_dates, rebalance_period,
          todo, portfolio_weights, selection, weights, portfolio_returns,
          portfolio_value, previous_weights, live, quantile_cache, caller_tables,
          call, ret>>

calculator == <<live, quantile_cache>>

inputs == <<cfg, all_price_date, composition_data, factor, value_factor,
            momentum_factor, profitability_factor, market_cap_data>>

Dates == 1..NDates
Columns ==
  IF DOMAIN all_price_date = {} THEN {}
  ELSE DOMAIN all_price_date[CHOOSE d \in DOMAIN all_price_date : TRUE]

\* ----------------------------------------------------- PortfolioConstructor
\* __init__ keeps the rows inside [start_date, end_date] when both are given
InWindow(d) ==
  cfg.start_date # None /\ cfg.end_date # None => d >= cfg.start_date /\ d <= cfg.end_date

price_data == [d \in {x \in DOMAIN all_price_date : InWindow(x)} |-> all_price_date[d]]

SetMin(S) == CHOOSE x \in S : \A y \in S : x <= y
SetMax(S) == CHOOSE x \in S : \A y \in S : x >= y

\* index.min() / index.max() of an empty index are NaT, and no date compares with NaT
start_date ==
  IF cfg.start_date # None THEN cfg.start_date
  ELSE IF DOMAIN price_data = {} THEN NaT ELSE SetMin(DOMAIN price_data)
end_date ==
  IF cfg.end_date # None THEN cfg.end_date
  ELSE IF DOMAIN price_data = {} THEN NaT ELSE SetMax(DOMAIN price_data)

\* variant: the membership flag is not consulted
AllTickersAtDate(date) == DOMAIN composition_data[date]

get_tickers_at_date(date) == {a \in DOMAIN composition_data[date] : composition_data[date][a] = 1}

\* variant: the dates of the whole price table, whatever the window
AllPriceDates == SortedSeq(DOMAIN all_price_date)

\* lines 33-36
FilteredDates ==
  SortedSeq({d \in DOMAIN price_data :
               start_date # NaT /\ end_date # NaT /\ d >= start_date /\ d <= end_date})

SeqSet(q) == {q[i] : i \in 1..Len(q)}

\* lines 46-50: the loop over consecutive rebalance dates
RECURSIVE RebalanceLoop(_, _, _)
RebalanceLoop(rebalance_dates, period, i) ==
  IF i > Len(rebalance_dates) - 1 THEN period
  ELSE RebalanceLoop(rebalance_dates,
         [d \in DOMAIN period |->
            IF d >= rebalance_dates[i] /\ d < rebalance_dates[i + 1]
            THEN rebalance_dates[i] ELSE period[d]],
         i + 1)

\* variant: the last period is attached to the first anchor
RebalanceLastToFirst(rebalance_dates, period) ==
  IF Len(rebalance_dates) > 0
  THEN [d \in DOMAIN period |->
          IF d >= rebalance_dates[Len(rebalance_dates)]
          THEN rebalance_dates[1] ELSE period[d]]
  ELSE period

\* lines 53-55: the last period
RebalanceLast(rebalance_dates, period) ==
  IF Len(rebalance_dates) > 0
  THEN [d \in DOMAIN period |->
          IF d >= rebalance_dates[Len(rebalance_dates)]
          THEN rebalance_dates[Len(rebalance_dates)] ELSE period[d]]
  ELSE period

\* lines 38-55
RebalancePeriod(dates) ==
  LET rebalance_dates == SortedSeq(SeqSet(dates))
  IN  RebalanceLast(rebalance_dates,
                    RebalanceLoop(rebalance_dates, [d \in SeqSet(dates) |-> NaT], 1))

\* rebalance_period.unique(): the anchors in order of first appearance
RECURSIVE Unique(_, _, _)
Unique(dates, period, seen) ==
  IF dates = << >> THEN << >>
  ELSE LET a == period[Head(dates)]
       IN  IF a \in seen THEN Unique(Tail(dates), period, seen)
           ELSE <<a>> \o Unique(Tail(dates), period, seen \cup {a})

\* variant: an unknown selector falls to minimum variance
MethodOrMinVariance ==
  IF cfg.weighting_method = "market_cap" /\ cfg.has_mcap THEN "market_cap"
  ELSE IF cfg.weighting_method = "equal" THEN "equal"
  ELSE "min_variance"

\* lines 93-103 and 231-238: the if / elif / else chain on weighting_method
Method ==
  IF cfg.weighting_method = "market_cap" /\ cfg.has_mcap THEN "market_cap"
  ELSE IF cfg.weighting_method = "min_variance" THEN "min_variance"
  ELSE "equal"

\* the weighting call of construct_portfolio (lines 89-103): its possible outcomes
SingleWeights(current_date) ==
  LET valid_tickers == get_tickers_at_date(current_date)
      current_scores ==
        ToNumeric(DropNa([a \in valid_tickers |-> factor[current_date][a]]))
  IN  IF Method = "market_cap"
      THEN {market_cap_weight(TRUE, current_scores, cfg.top_n,
                              market_cap_data[current_date], FALSE)}
      ELSE IF Method = "min_variance"
      THEN minimum_variance_weight(TRUE, current_scores, cfg.top_n, all_price_date,
                                   current_date, cfg.volatility_lookback_months, FALSE)
      ELSE {equal_weight(TRUE, current_scores, cfg.top_n, FALSE)}

\* lines 134-139
CommonTickers(current_date) ==
  LET valid_tickers == get_tickers_at_date(current_date)
      value_scores == DropNa([a \in valid_tickers |-> value_factor[current_date][a]])
      momentum_scores == DropNa([a \in valid_tickers |-> momentum_factor[current_date][a]])
      profitability_scores ==
        DropNa([a \in valid_tickers |-> profitability_factor[current_date][a]])
  IN  DOMAIN value_scores \cap DOMAIN momentum_scores \cap DOMAIN profitability_scores

FinalTickers(current_date, tie) ==
  BuyEligible(ConditionalPortfolios(value_factor[current_date],
                                    momentum_factor[current_date],
                                    profitability_factor[current_date],
                                    CommonTickers(current_date), tie))

\* the weighting call of construct_conditional_portfolio (lines 230-238)
ConditionalWeights(current_date, final_tickers) ==
  IF Method = "market_cap"
  THEN {market_cap_weight(FALSE, final_tickers, None, market_cap_data[current_date], FALSE)}
  ELSE IF Method = "min_variance"
  THEN minimum_variance_weight(FALSE, final_tickers, None, all_price_date,
                               current_date, cfg.volatility_lookback_months, FALSE)
  ELSE {equal_weight(FALSE, final_tickers, None, FALSE)}

\* lines 106-110 and 241-245
Overlay(r, current_date) ==
  IF r.raised = "" /\ cfg.volatility_scaling
  THEN [r EXCEPT !.weights =
          volatility_scaling_weight(r.weights, all_price_date, current_date,
                                    cfg.target_volatility, cfg.volatility_lookback_months)]
  ELSE r

\* variant: the minimum number of common tickers is not enforced
NeverTooFew(common_tickers) == FALSE

\* variant: 10 common tickers are too few as well
TooFewOrTen(common_tickers) == Cardinality(common_tickers) <= MinTickers

\* line 141: len(common_tickers) < 10
TooFew(common_tickers) == Cardinality(common_tickers) < MinTickers

\* lines 87-113 and 132-248: the loop body after get_tickers_at_date
AnchorWeights(current_date, tie) ==
  IF cfg.entry = "construct_portfolio"
  THEN {Overlay(r, current_date) : r \in SingleWeights(current_date)}
  ELSE IF TooFew(CommonTickers(current_date))
       THEN {Returned(ZeroSeries(Columns), {})}
       ELSE LET final_tickers == FinalTickers(current_date, tie)
            IN  IF Cardinality(final_tickers) = 0
                THEN {Returned(ZeroSeries(Columns), {})}
                ELSE {Overlay(r, current_date) :
                        r \in ConditionalWeights(current_date, final_tickers)}

\* line 27: composition_data.loc[date] raises KeyError when the date is no
\* label of the table
MissingDate(date) == date \notin DOMAIN composition_data

\* variant: an anchor without a universe row is skipped with zero weights
SkipMissing(current_date, tie) ==
  IF MissingDate(current_date) THEN {Returned(ZeroSeries(Columns), {})}
  ELSE AnchorWeights(current_date, tie)

\* one iteration of the loop: the possible values of new_weights; nothing
\* catches the KeyError of get_tickers_at_date (lines 88 and 133)
NewWeights(current_date, tie) ==
  IF MissingDate(current_date) THEN {Raised("KeyError", {})}
  ELSE AnchorWeights(current_date, tie)

\* variant: an anchor that selects nothing keeps the previous weights
CarryOver(current_date, tie, prev) ==
  {IF r.raised = "" /\ r.selected_tickers = {} THEN [r EXCEPT !.weights = prev] ELSE r :
     r \in NewWeights(current_date, tie)}

\* the loop body in the scope it runs in: previous_weights (assigned at lines
\* 112 and 248) is in scope and is never read
IterationWeights(current_date, tie, prev) == NewWeights(current_date, tie)

\* ------------------------------------------------------ _finalize_portfolio
\* variant: every date takes the weights of the first date's anchor
BroadcastFirst(dates, period, pw, columns) ==
  [d \in SeqSet(dates) |-> Reindex(pw[period[dates[1]]], columns)]

\* lines 63-65: weights.loc[date] = portfolio_weights[rebal_date]; the Series
\* is aligned on the columns, which leaves NaN where it has no entry
Broadcast(dates, period, pw, columns) ==
  [d \in SeqSet(dates) |-> Reindex(pw[period[d]], columns)]

\* line 68: price_data.loc[filtered_dates].pct_change(fill_method=None).fillna(0)
MonthlyReturns(dates, columns) ==
  [i \in 1..Len(dates) |-> [a \in columns |->
     IF i = 1 THEN Zero
     ELSE LET r == PctChange(price_data, dates, i, a) IN IF IsNaN(r) THEN Zero ELSE r]]

\* variant: the weights are not lagged
Shift0(dates, w, columns) == [i \in 1..Len(dates) |-> w[dates[i]]]

\* weights.shift(1)
Shift1(dates, w, columns) ==
  [i \in 1..Len(dates) |-> IF i = 1 THEN [a \in columns |-> NaN] ELSE w[dates[i - 1]]]

\* variant: a missing return is not replaced by 0 and the sum does not skip it
PortfolioReturnsStrict(dates, w, columns) ==
  [i \in 1..Len(dates) |->
     SumOver([a \in columns |->
                IF i = 1 THEN Zero
                ELSE Mul(PctChange(price_data, dates, i, a), w[dates[i - 1]][a])],
             columns, Zero)]

\* line 69: (monthly_returns * weights.shift(1)).sum(axis=1)
PortfolioReturns(dates, w, columns) ==
  LET monthly_returns == MonthlyReturns(dates, columns)
      shifted == Shift1(dates, w, columns)
  IN  [i \in 1..Len(dates) |->
         SeriesSum([a \in columns |-> Mul(monthly_returns[i][a], shifted[i][a])])]

\* variant: the returns are added up instead of compounded
RECURSIVE RunningSum(_, _)
RunningSum(r, i) == IF i = 0 THEN One ELSE Add(RunningSum(r, i - 1), r[i])

\* line 72: (1 + portfolio_returns).cumprod()
RECURSIVE CumProd(_, _)
CumProd(r, i) == IF i = 0 THEN One ELSE Mul(CumProd(r, i - 1), Add(One, r[i]))

PortfolioValue(r) == [i \in DOMAIN r |-> CumProd(r, i)]

ByDate(dates, f) == [d \in SeqSet(dates) |-> f[CHOOSE i \in 1..Len(dates) : dates[i] = d]]


\* ----------------------------------------------------------------- inputs
Assets == 1..NAssets
CondAssets == 1..NCondAssets
Min(a, b) == IF a < b THEN a ELSE b

\* universe rows: everything eligible, the last column not, nothing
AllIn(A) == [a \in A |-> 1]
LastOut(A) == [a \in A |-> IF a = SetMax(A) THEN 0 ELSE 1]
NoneIn(A) == [a \in A |-> 0]
LastTwoOut(A) == [a \in A |-> IF a >= SetMax(A) - 1 THEN 0 ELSE 1]

\* score rows: rising with a tie at the top, alternating, and one with a
\* missing and a non-numeric entry
Rising(A) == [a \in A |-> Rat(Min(a, MaxScore), 1)]
Alternating(A) == [a \in A |-> Rat(1 + (a % MaxScore), 1)]
Gappy(A) == [a \in A |-> IF a = 1 THEN NaN ELSE IF a = 2 THEN NotNumeric ELSE One]

\* a date's universe row and score row
Rows(A) ==
  {<<AllIn(A), Rising(A)>>, <<LastOut(A), Rising(A)>>, <<AllIn(A), Gappy(A)>>,
   <<NoneIn(A), Alternating(A)>>, <<AllIn(A), Alternating(A)>>}

\* capitalization tables: rising, all zero or missing, one missing
CapTables(A) ==
  {[d \in Dates |-> [a \in A |-> Rat(a, 1)]],
   [d \in Dates |-> [a \in A |-> IF a = 1 THEN NaN ELSE Zero]],
   [d \in Dates |-> [a \in A |-> IF a = 1 THEN NaN ELSE Rat(a, 1)]]}

\* a capitalization table that misses the last but one asset
MissingCap(A) ==
  [d \in Dates |-> [a \in A |-> IF a = SetMax(A) - 1 THEN NaN ELSE Rat(a, 1)]]

\* one asset's price history: alternating, rising to MaxPrice, never
\* listed, one month missing
PriceProfiles ==
  {[d \in Dates |-> Rat(1 + (d % MaxPrice), 1)],
   [d \in Dates |-> Rat(Min(d, MaxPrice), 1)],
   [d \in Dates |-> NaN],
   [d \in Dates |-> IF d = 2 THEN NaN ELSE Rat(Min(d, MaxPrice), 1)]}

PriceTable(A, profile) == [d \in Dates |-> [a \in A |-> profile[a][d]]]

BasePrices(A) ==
  [d \in Dates |-> [a \in A |->
     IF a % 2 = 1 THEN Rat(Min(d, MaxPrice), 1) ELSE Rat(1 + ((d + a \div 2) % MaxPrice), 1)]]

\* a quiet market: one asset steps up in the last month, one steps down, the
\* others do not move
CalmPrices(A) ==
  [d \in Dates |-> [a \in A |->
     IF a = 1 THEN Rat(IF d < NDates THEN CalmPrice - 1 ELSE CalmPrice, 1)
     ELSE IF a = 2 THEN Rat(IF d < NDates THEN CalmPrice ELSE CalmPrice - 1, 1)
     ELSE One]]

TopNs == {None} \cup (0..(NAssets - 1))
Windows == {<<None, None>>, <<2, None>>, <<1, NDates - 1>>, <<2, 1>>}
TargetVol == Rat(TargetVolPct, 100)
\* a table's index: the labels of its rows in order, each a Timestamp or the
\* text of a date
IndexOf(table, kind) ==
  LET dates == SortedSeq(DOMAIN table)
  IN  [i \in 1..Len(dates) |-> [kind |-> kind, date |-> dates[i]]]

Snapshot(price_kind, composition_kind) ==
  LET index == [price |-> IndexOf(all_price_date, price_kind),
                composition |-> IndexOf(composition_data, composition_kind)]
  IN  [given |-> index, now |-> index]

\* nothing has run yet
NoCalculator == live = << >> /\ quantile_cache = << >>

Fresh ==
  /\ NoCalculator
  /\ filtered_dates = << >>
  /\ rebalance_period = << >>
  /\ todo = << >>
  /\ portfolio_weights = << >>
  /\ selection = << >>
  /\ weights = << >>
  /\ portfolio_returns = << >>
  /\ portfolio_value = << >>
  /\ previous_weights = << >>
  /\ call = << >>
  /\ ret = << >>

\* the constructor has run on tables indexed by Timestamps
Untouched ==
  /\ pc = "constructed"
  /\ caller_tables = Snapshot("Timestamp", "Timestamp")
  /\ NoCalculator
  /\ previous_weights = << >>
  /\ filtered_dates = << >>
  /\ rebalance_period = << >>
  /\ todo = << >>
  /\ portfolio_weights = << >>
  /\ selection = << >>
  /\ weights = << >>
  /\ portfolio_returns = << >>
  /\ portfolio_value = << >>
  /\ call = << >>
  /\ ret = << >>

Cfg(entry, top_n, method, has_mcap, scaling, lookback, window) ==
  [entry |-> entry, top_n |-> top_n, weighting_method |-> method, has_mcap |-> has_mcap,
   volatility_scaling |-> scaling, target_volatility |-> TargetVol,
   volatility_lookback_months |-> lookback,
   start_date |-> window[1], end_date |-> window[2]]

\* construct_portfolio over varied universe and score tables
InitSelection ==
  /\ \E top_n \in TopNs, method \in {"equal", "market_cap"} :
       cfg = Cfg("construct_portfolio", top_n, method, method = "market_cap", FALSE,
                 MaxLookback, <<None, None>>)
  /\ all_price_date = BasePrices(Assets)
  /\ \E rows \in [Dates -> Rows(Assets)] :
       /\ composition_data = [d \in Dates |-> rows[d][1]]
       /\ factor = [d \in Dates |-> rows[d][2]]
  /\ value_factor = << >> /\ momentum_factor = << >> /\ profitability_factor = << >>
  /\ market_cap_data \in (IF cfg.has_mcap THEN CapTables(Assets) ELSE {<< >>})
  /\ Untouched

\* construct_portfolio over varied prices, windows, methods and overlay
InitNumeric ==
  /\ \E method \in {"equal", "min_variance"}, scaling \in BOOLEAN,
        lookback \in 1..MaxLookback, window \in Windows :
       /\ (method = "equal" /\ ~scaling) => lookback = MaxLookback
       /\ cfg = Cfg("construct_portfolio", None, method, FALSE, scaling, lookback, window)
  /\ \/ \E profile \in [Assets -> PriceProfiles] :
          all_price_date = PriceTable(Assets, profile)
     \/ all_price_date = CalmPrices(Assets)
  /\ composition_data = [d \in Dates |-> AllIn(Assets)]
  /\ factor = [d \in Dates |-> Rising(Assets)]
  /\ value_factor = << >> /\ momentum_factor = << >> /\ profitability_factor = << >>
  /\ market_cap_data = << >>
  /\ Untouched

\* construct_conditional_portfolio
Ranked(A) == [a \in A |-> Rat(a, 1)]
Reversed(A) == [a \in A |-> Rat(SetMax(A) + 1 - a, 1)]

InitConditional ==
  /\ \E method \in {"equal", "market_cap", "min_variance"}, has_mcap \in BOOLEAN,
        scaling \in BOOLEAN :
       /\ has_mcap => method = "market_cap"
       /\ cfg = Cfg("construct_conditional_portfolio", None, method, has_mcap, scaling,
                    MaxLookback, <<None, None>>)
  /\ all_price_date = BasePrices(CondAssets)
  /\ \/ composition_data \in [Dates -> {AllIn(CondAssets), LastOut(CondAssets)}]
     \/ \E thin \in Dates :
          composition_data =
            [d \in Dates |-> IF d = thin THEN LastTwoOut(CondAssets) ELSE AllIn(CondAssets)]
  /\ factor = << >>
  /\ \E v \in {Ranked(CondAssets), Rising(CondAssets)} :
       value_factor = [d \in Dates |-> v]
  /\ \E mq \in {<<Ranked(CondAssets), Reversed(CondAssets)>>,
                <<Reversed(CondAssets), Alternating(CondAssets)>>,
                <<Ranked(CondAssets), Ranked(CondAssets)>>} :
       /\ momentum_factor = [d \in Dates |-> mq[1]]
       /\ profitability_factor = [d \in Dates |-> mq[2]]
  /\ market_cap_data \in (IF cfg.has_mcap
                          THEN CapTables(CondAssets) \cup {MissingCap(CondAssets)}
                          ELSE {<< >>})
  /\ Untouched

\* a universe table that lacks the row of one price date
InitMissingDate ==
  /\ \E entry \in {"construct_portfolio", "construct_conditional_portfolio"},
        window \in Windows, gap \in Dates :
       LET A == IF entry = "construct_portfolio" THEN Assets ELSE CondAssets
       IN  /\ cfg = Cfg(entry, None, "equal", FALSE, FALSE, MaxLookback, window)
           /\ all_price_date = BasePrices(A)
           /\ composition_data = [d \in Dates \ {gap} |-> AllIn(A)]
           /\ IF entry = "construct_portfolio"
              THEN /\ factor = [d \in Dates |-> Rising(A)]
                   /\ value_factor = << >> /\ momentum_factor = << >>
                   /\ profitability_factor = << >>
              ELSE /\ factor = << >>
                   /\ value_factor = [d \in Dates |-> Ranked(A)]
                   /\ momentum_factor = [d \in Dates |-> Ranked(A)]
                   /\ profitability_factor = [d \in Dates |-> Ranked(A)]
  /\ market_cap_data = << >>
  /\ Untouched

\* an empty price table
InitEmpty ==
  /\ \E entry \in {"construct_portfolio", "construct_conditional_portfolio"},
        method \in {"equal", "min_variance"}, scaling \in BOOLEAN, window \in Windows :
       /\ cfg = Cfg(entry, None, method, FALSE, scaling, MaxLookback, window)
       /\ IF entry = "construct_portfolio"
          THEN /\ factor = [d \in Dates |-> Rising(Assets)]
               /\ value_factor = << >> /\ momentum_factor = << >>
               /\ profitability_factor = << >>
          ELSE /\ factor = << >>
               /\ value_factor = [d \in Dates |-> Ranked(Assets)]
               /\ momentum_factor = [d \in Dates |-> Ranked(Assets)]
               /\ profitability_factor = [d \in Dates |-> Ranked(Assets)]
  /\ all_price_date = << >>
  /\ composition_data \in {<< >>, [d \in Dates |-> AllIn(Assets)]}
  /\ market_cap_data = << >>
  /\ Untouched

\* selectors without a method of their own: "market_cap" without a
\* capitalization table, and a name the chain does not know
InitSelector ==
  /\ \E entry \in {"construct_portfolio", "construct_conditional_portfolio"},
        method \in {"market_cap", "risk_parity"}, scaling \in BOOLEAN :
       LET A == IF entry = "construct_portfolio" THEN Assets ELSE CondAssets
       IN  /\ cfg = Cfg(entry, None, method, FALSE, scaling, MaxLookback, <<None, None>>)
           /\ all_price_date = BasePrices(A)
           /\ composition_data = [d \in Dates |-> IF d = 1 THEN LastOut(A) ELSE AllIn(A)]
           /\ IF entry = "construct_portfolio"
              THEN /\ factor = [d \in Dates |-> Gappy(A)]
                   /\ value_factor = << >> /\ momentum_factor = << >>
                   /\ profitability_factor = << >>
              ELSE /\ factor = << >>
                   /\ value_factor = [d \in Dates |-> Ranked(A)]
                   /\ momentum_factor = [d \in Dates |-> Ranked(A)]
                   /\ profitability_factor = [d \in Dates |-> Ranked(A)]
  /\ market_cap_data = << >>
  /\ Untouched

\* before the constructor is called: tables whose index holds Timestamps or
\* the text of the dates
InitNew ==
  /\ \E window \in Windows :
       cfg = Cfg("construct_portfolio", None, "equal", FALSE, FALSE, MaxLookback, window)
  /\ all_price_date = BasePrices(Assets)
  /\ composition_data = [d \in Dates |-> AllIn(Assets)]
  /\ factor = [d \in Dates |-> Rising(Assets)]
  /\ value_factor = << >> /\ momentum_factor = << >> /\ profitability_factor = << >>
  /\ market_cap_data = << >>
  /\ \E price_kind, composition_kind \in {"Timestamp", "str"} :
       caller_tables = Snapshot(price_kind, composition_kind)
  /\ pc = "new"
  /\ Fresh

Init ==
  \/ InitSelection \/ InitNumeric \/ InitConditional
  \/ InitMissingDate \/ InitEmpty \/ InitSelector \/ InitNew

\* ---------------------------------------------------------------- actions
\* isinstance(index, pd.DatetimeIndex)
IsDatetimeIndex(index) == \A i \in DOMAIN index : index[i].kind = "Timestamp"

\* pd.to_datetime(index): every label becomes the Timestamp of its date
to_datetime(index) == [i \in DOMAIN index |-> [kind |-> "Timestamp", date |-> index[i].date]]

\* lines 11-15: self.price_data is the caller's table, and the assignment to
\* its .index replaces the index of that table
ConvertIndex(index) == IF IsDatetimeIndex(index) THEN index ELSE to_datetime(index)

\* __init__
Construct ==
  /\ pc = "new"
  /\ pc' = "constructed"
  /\ caller_tables' =
       [caller_tables EXCEPT !.now = [price |-> ConvertIndex(@.price),
                                      composition |-> ConvertIndex(@.composition)]]
  /\ UNCHANGED <<inputs, calculator, previous_weights, filtered_dates, rebalance_period, todo,
                 portfolio_weights, selection, weights, portfolio_returns,
                 portfolio_value, call, ret>>

\* _prepare_portfolio_construction
Prepare ==
  /\ pc = "constructed"
  /\ pc' = "loop"
  /\ filtered_dates' = FilteredDates
  /\ rebalance_period' = RebalancePeriod(FilteredDates)
  /\ weights' = [d \in SeqSet(FilteredDates) |-> ZeroSeries(Columns)]
  /\ todo' = Unique(FilteredDates, RebalancePeriod(FilteredDates), {})
  /\ previous_weights' = ZeroSeries(Columns)
  /\ UNCHANGED <<inputs, calculator, caller_tables, portfolio_weights, selection, portfolio_returns,
                 portfolio_value, call, ret>>

\* the order in which equal scores come out of list(set(...)) and sort_values
TieOrders == {[a \in Columns |-> a], [a \in Columns |-> 0 - a]}

\* one iteration of the loop over rebalance_period.unique()
Rebalance ==
  /\ pc = "loop"
  /\ todo # << >>
  /\ \E tie \in TieOrders : \E r \in IterationWeights(Head(todo), tie, previous_weights) :
       IF r.raised # ""
       THEN /\ pc' = "raised"
            /\ ret' = r
            /\ UNCHANGED <<todo, portfolio_weights, selection, previous_weights>>
       ELSE /\ pc' = "loop"
            /\ todo' = Tail(todo)
            /\ portfolio_weights' = (Head(todo) :> r.weights) @@ portfolio_weights
            /\ selection' = (Head(todo) :> r.selected_tickers) @@ selection
            /\ previous_weights' = r.weights
            /\ UNCHANGED ret
  /\ UNCHANGED <<inputs, calculator, caller_tables, filtered_dates, rebalance_period, weights, portfolio_returns,
                 portfolio_value, call>>

\* _finalize_portfolio
Finalize ==
  /\ pc = "loop"
  /\ todo = << >>
  /\ pc' = "done"
  /\ LET w == Broadcast(filtered_dates, rebalance_period, portfolio_weights, Columns)
         r == PortfolioReturns(filtered_dates, w, Columns)
     IN  /\ weights' = w
         /\ portfolio_returns' = ByDate(filtered_dates, r)
         /\ portfolio_value' = ByDate(filtered_dates, PortfolioValue(r))
  /\ UNCHANGED <<inputs, calculator, caller_tables, previous_weights, filtered_dates, rebalance_period, todo, portfolio_weights,
                 selection, call, ret>>

Next == Construct \/ Prepare \/ Rebalance \/ Finalize

Spec == Init /\ [][Next]_vars

\* ------------------------------------------- the anchors taken in any order
\* the sequence q without its i-th element
Without(q, i) == SubSeq(q, 1, i - 1) \o SubSeq(q, i + 1, Len(q))

\* one iteration of the loop on any anchor that is still to do
RebalanceAny ==
  /\ pc = "loop"
  /\ todo # << >>
  /\ \E i \in 1..Len(todo) : \E tie \in TieOrders :
       \E r \in IterationWeights(todo[i], tie, previous_weights) :
         IF r.raised # ""
         THEN /\ pc' = "raised"
              /\ ret' = r
              /\ UNCHANGED <<todo, portfolio_weights, selection, previous_weights>>
         ELSE /\ pc' = "loop"
              /\ todo' = Without(todo, i)
              /\ portfolio_weights' = (todo[i] :> r.weights) @@ portfolio_weights
              /\ selection' = (todo[i] :> r.selected_tickers) @@ selection
              /\ previous_weights' = r.weights
              /\ UNCHANGED ret
  /\ UNCHANGED <<inputs, calculator, caller_tables, filtered_dates, rebalance_period, weights,
                 portfolio_returns, portfolio_value, call>>

InitAnyOrder == InitSelection \/ InitNumeric

NextAnyOrder == Prepare \/ RebalanceAny \/ Finalize

SpecAnyOrder == InitAnyOrder /\ [][NextAnyOrder]_vars


\* ------------------------------------------- the weighting functions called
\* directly (they are static methods): every Series of scores over a subset
\* of the assets, every list of tickers, every top_n and both sort orders
ScoreVals == {NaN} \cup {Rat(k, 1) : k \in 1..MaxScore}
ScoreSeries == UNION {[idx -> ScoreVals] : idx \in SUBSET Assets}
CallTopNs == {None} \cup (0..NAssets)
CapRows == {t[1] : t \in CapTables(Assets)}
CallPrices ==
  {BasePrices(Assets),
   PriceTable(Assets, [a \in Assets |->
      IF a = 1 THEN [d \in Dates |-> NaN] ELSE [d \in Dates |-> Rat(Min(d, MaxPrice), 1)]])}

\* the first asset starts from a price of 0, or stays at 0
ZeroPrices ==
  {[d \in Dates |-> [a \in Assets |->
      IF a = 1 THEN Rat(d - 1, 1) ELSE BasePrices(Assets)[d][a]]],
   [d \in Dates |-> [a \in Assets |->
      IF a = 1 THEN Zero ELSE BasePrices(Assets)[d][a]]]}

\* the second asset misses the price of the second month
GapPrices ==
  [d \in Dates |-> [a \in Assets |->
     IF a = 2 /\ d = 2 THEN NaN ELSE BasePrices(Assets)[d][a]]]

\* current_date and lookback_months of a direct call
CallWindows == {<<NDates, MaxLookback>>, <<NDates, 1>>, <<1, MaxLookback>>}

Shapes ==
  {[is_series |-> TRUE, scores_or_tickers |-> sc, top_n |-> n, sort_ascending |-> asc] :
     sc \in ScoreSeries, n \in CallTopNs, asc \in BOOLEAN}
  \cup
  {[is_series |-> FALSE, scores_or_tickers |-> l, top_n |-> None, sort_ascending |-> FALSE] :
     l \in SUBSET Assets}

NoTables ==
  /\ cfg = << >>
  /\ NoCalculator
  /\ caller_tables = << >>
  /\ previous_weights = << >>
  /\ composition_data = << >>
  /\ factor = << >>
  /\ value_factor = << >> /\ momentum_factor = << >> /\ profitability_factor = << >>
  /\ filtered_dates = << >>
  /\ rebalance_period = << >>
  /\ todo = << >>
  /\ portfolio_weights = << >>
  /\ selection = << >>
  /\ weights = << >>
  /\ portfolio_returns = << >>
  /\ portfolio_value = << >>

\* initial_weights given to volatility_scaling_weight: weights >= 0 over all
\* the assets, over the first two, or over none
WeightVals == {Zero, Rat(1, 3), Rat(1, 2), One}
WeightSeries == UNION {[idx -> WeightVals] : idx \in {Assets, Assets \ {NAssets}, {}}}
TargetVols == {Zero, TargetVol}
OverlayPrices == CallPrices \cup ZeroPrices \cup {CalmPrices(Assets), GapPrices}

InitCall ==
  /\ pc = "call"
  /\ \/ \E fn \in {"equal_weight", "market_cap_weight", "minimum_variance_weight"},
           shape \in Shapes :
          \E w \in (IF fn = "minimum_variance_weight" THEN CallWindows
                    ELSE {<<NDates, MaxLookback>>}) :
            call = [fn |-> fn, args |-> shape,
                    current_date |-> w[1], lookback_months |-> w[2]]
     \/ \E initial_weights \in WeightSeries, target_volatility \in TargetVols,
           w \in CallWindows :
          call = [fn |-> "volatility_scaling_weight",
                  args |-> [initial_weights |-> initial_weights,
                            target_volatility |-> target_volatility],
                  current_date |-> w[1], lookback_months |-> w[2]]
  /\ market_cap_data \in (IF call.fn = "market_cap_weight" THEN CapRows ELSE {<< >>})
  /\ all_price_date \in (IF call.fn = "minimum_variance_weight"
                         THEN CallPrices \cup ZeroPrices \cup {GapPrices}
                         ELSE IF call.fn = "volatility_scaling_weight"
                         THEN OverlayPrices ELSE {<< >>})
  /\ ret = << >>
  /\ NoTables

CallEqualWeight ==
  /\ pc = "call" /\ call.fn = "equal_weight"
  /\ ret' = equal_weight(call.args.is_series, call.args.scores_or_tickers,
                         call.args.top_n, call.args.sort_ascending)
  /\ pc' = "returned"
  /\ UNCHANGED <<inputs, calculator, caller_tables, previous_weights, filtered_dates, rebalance_period, todo, portfolio_weights,
                 selection, weights, portfolio_returns, portfolio_value, call>>

CallMarketCapWeight ==
  /\ pc = "call" /\ call.fn = "market_cap_weight"
  /\ ret' = market_cap_weight(call.args.is_series, call.args.scores_or_tickers,
                              call.args.top_n, market_cap_data, call.args.sort_ascending)
  /\ pc' = "returned"
  /\ UNCHANGED <<inputs, calculator, caller_tables, previous_weights, filtered_dates, rebalance_period, todo, portfolio_weights,
                 selection, weights, portfolio_returns, portfolio_value, call>>

CallMinimumVarianceWeight ==
  /\ pc = "call" /\ call.fn = "minimum_variance_weight"
  /\ ret' \in minimum_variance_weight(call.args.is_series, call.args.scores_or_tickers,
                                      call.args.top_n, all_price_date, call.current_date,
                                      call.lookback_months,
                                      call.args.sort_ascending)
  /\ pc' = "returned"
  /\ UNCHANGED <<inputs, calculator, caller_tables, previous_weights, filtered_dates, rebalance_period, todo, portfolio_weights,
                 selection, weights, portfolio_returns, portfolio_value, call>>

CallVolatilityScalingWeight ==
  /\ pc = "call" /\ call.fn = "volatility_scaling_weight"
  /\ ret' = Returned(volatility_scaling_weight(call.args.initial_weights, all_price_date,
                                               call.current_date,
                                               call.args.target_volatility,
                                               call.lookback_months), {})
  /\ pc' = "scaled"
  /\ UNCHANGED <<inputs, calculator, caller_tables, previous_weights, filtered_dates, rebalance_period, todo, portfolio_weights,
                 selection, weights, portfolio_returns, portfolio_value, call>>

\* the overlay applied to its own output, with the same target or with the
\* volatility of that output as the target
CallVolatilityScalingWeightAgain ==
  /\ pc = "scaled"
  /\ \E target_volatility \in
          {call.args.target_volatility,
           CurrentVolatility(ret.weights, all_price_date, call.current_date,
                             call.lookback_months)} :
       /\ call' = [fn |-> call.fn,
                   args |-> [initial_weights |-> ret.weights,
                             target_volatility |-> target_volatility],
                   current_date |-> call.current_date,
                   lookback_months |-> call.lookback_months,
                   original |-> call.args]
       /\ ret' = Returned(volatility_scaling_weight(ret.weights, all_price_date,
                                                    call.current_date, target_volatility,
                                                    call.lookback_months), {})
  /\ pc' = "rescaled"
  /\ UNCHANGED <<inputs, calculator, caller_tables, previous_weights, filtered_dates, rebalance_period, todo, portfolio_weights,
                 selection, weights, portfolio_returns, portfolio_value>>

NextCall ==
  \/ CallEqualWeight
  \/ CallMarketCapWeight
  \/ CallMinimumVarianceWeight
  \/ CallVolatilityScalingWeight
  \/ CallVolatilityScalingWeightAgain

SpecCall == InitCall /\ [][NextCall]_vars

\* ------------------------------------------------ FactorCalculator's clipping
\* One FactorCalculator, the tables its callers build, clip and drop.
\* A table is one row of finite cells (quantile and clip work row by row);
\* id(df) is the address of the table, one of Ids, and an address is free
\* again once its table is dropped.
NIds == 2
NCells == 3
NScales == 2

Ids == 1..NIds
ClipTables == {[a \in 1..NCells |-> Rat(a * k, 1)] : k \in 1..NScales}
\* (lower_percentile, upper_percentile): the defaults and one other pair
Percentiles == {<<Rat(5, 100), Rat(95, 100)>>, <<Rat(10, 100), Rat(90, 100)>>}

RECURSIVE Ascending(_, _)
Ascending(row, S) ==
  IF S = {} THEN << >>
  ELSE LET least == CHOOSE a \in S : \A b \in S : Le(row[a], row[b])
       IN <<row[least]>> \o Ascending(row, S \ {least})

\* df.quantile(q, axis=1): linear interpolation at position q * (n - 1)
quantile(row, q) ==
  LET v == Ascending(row, DOMAIN row)
      position == Mul(q, Rat(Len(v) - 1, 1))
      below == position[1] \div position[2]
      fraction == Sub(position, Rat(below, 1))
  IN IF below + 2 > Len(v) THEN v[below + 1]
     ELSE Add(v[below + 1], Mul(fraction, Sub(v[below + 2], v[below + 1])))

Quantiles(df, percentiles) ==
  [lower_bounds |-> quantile(df, percentiles[1]),
   upper_bounds |-> quantile(df, percentiles[2])]

\* df.clip(lower=..., upper=..., axis=0)
clip(df, bounds) ==
  [a \in DOMAIN df |->
     IF Lt(df[a], bounds.lower_bounds) THEN bounds.lower_bounds
     ELSE IF Lt(bounds.upper_bounds, df[a]) THEN bounds.upper_bounds
     ELSE df[a]]

InitClip ==
  /\ pc = "calculator"
  /\ NoTables
  /\ all_price_date = << >>
  /\ market_cap_data = << >>
  /\ call = << >>
  /\ ret = << >>

\* a caller builds a table; it takes any free address
NewTable ==
  \E i \in Ids \ DOMAIN live, df \in ClipTables :
    /\ pc = "calculator"
    /\ live' = live @@ (i :> df)
    /\ UNCHANGED <<inputs, quantile_cache, caller_tables, pc, filtered_dates,
                   rebalance_period, todo, portfolio_weights, selection, weights,
                   portfolio_returns, portfolio_value, previous_weights, call, ret>>

\* the caller drops its table: the address is free, the cache is not told
DropTable ==
  \E i \in DOMAIN live :
    /\ pc = "calculator"
    /\ live' = [j \in DOMAIN live \ {i} |-> live[j]]
    /\ UNCHANGED <<inputs, quantile_cache, caller_tables, pc, filtered_dates,
                   rebalance_period, todo, portfolio_weights, selection, weights,
                   portfolio_returns, portfolio_value, previous_weights, call, ret>>

ClipExtremeValues ==
  \E i \in DOMAIN live, percentiles \in Percentiles :
    LET df == live[i]
        cache_key == <<i, percentiles[1], percentiles[2]>>
        bounds == IF cache_key \notin DOMAIN quantile_cache
                  THEN Quantiles(df, percentiles)
                  ELSE quantile_cache[cache_key]
    IN /\ pc = "calculator"
       /\ quantile_cache' = IF cache_key \notin DOMAIN quantile_cache
                            THEN quantile_cache @@ (cache_key :> bounds)
                            ELSE quantile_cache
       /\ call' = [fn |-> "clip_extreme_values", id |-> i, df |-> df,
                   percentiles |-> percentiles]
       /\ ret' = [df_clipped |-> clip(df, bounds)]
       /\ UNCHANGED <<inputs, live, caller_tables, pc, filtered_dates,
                      rebalance_period, todo, portfolio_weights, selection, weights,
                      portfolio_returns, portfolio_value, previous_weights>>

NextClip == NewTable \/ DropTable \/ ClipExtremeValues

SpecClip == InitClip /\ [][NextClip]_vars



\* ================================================================ properties
Positive(x) == ~IsNaN(x) /\ Lt(Zero, x)
Returned_ == pc = "done"
ScheduleDates == SeqSet(filtered_dates)

\* C1 (held-weight invariant): once the constructor has returned, the weight
\* row of every schedule date d carries, asset by asset, the weight computed
\* at the anchor RebalanceMap(d), and two dates with the same anchor have
\* identical rows.
C1_HeldWeight ==
  Returned_ =>
    /\ \A d \in ScheduleDates :
         \A a \in DOMAIN portfolio_weights[rebalance_period[d]] \cap Columns :
           weights[d][a] = portfolio_weights[rebalance_period[d]][a]
    /\ \A d1, d2 \in ScheduleDates :
         rebalance_period[d1] = rebalance_period[d2] => weights[d1] = weights[d2]

\* a returned schedule of several dates whose anchors carry different weights
C1_Witness ==
  /\ Returned_
  /\ \E d1, d2 \in ScheduleDates :
       /\ portfolio_weights[rebalance_period[d1]] # portfolio_weights[rebalance_period[d2]]
       /\ \E a \in Columns : Positive(weights[d1][a])

\* the return of schedule position i computed from the weight row of position j
ReturnWith(i, j) ==
  LET monthly_returns == MonthlyReturns(filtered_dates, Columns)
      held == {a \in Columns : ~IsNaN(weights[filtered_dates[j]][a])}
  IN  SumSkipNa([a \in held |->
                   Mul(monthly_returns[i][a], weights[filtered_dates[j]][a])], held)

\* C2 (one-period lag): the portfolio return is 0 at the first schedule date
\* and at every later date t it is the sum over the assets of return_t times
\* the weight of the immediately preceding schedule date (an asset whose
\* weight cell is missing contributes nothing).
C2_LaggedReturn ==
  Returned_ =>
    \A i \in 1..Len(filtered_dates) :
      portfolio_returns[filtered_dates[i]] = IF i = 1 THEN Zero ELSE ReturnWith(i, i - 1)

\* a later date whose return differs from what the date's own weights would give
C2_Witness ==
  /\ Returned_
  /\ \E i \in 2..Len(filtered_dates) :
       /\ portfolio_returns[filtered_dates[i]] # Zero
       /\ ReturnWith(i, i) # ReturnWith(i, i - 1)

\* C3 (budget): in the returned schedule every row's weights sum (as pandas
\* sums them, missing cells skipped) to a value in [0, 1], and to 0 exactly
\* when the selection at the row's anchor was empty.
C3_RowSum ==
  Returned_ =>
    \A d \in ScheduleDates :
      LET total == SeriesSum(weights[d])
      IN  /\ Le(Zero, total) /\ Le(total, One)
          /\ (total = Zero) <=> (selection[rebalance_period[d]] = {})

\* a returned schedule with an empty period and a fully invested period; one
\* scaled below 1
C3_Witness ==
  /\ Returned_
  /\ \E d \in ScheduleDates : selection[rebalance_period[d]] = {}
  /\ \E d \in ScheduleDates : SeriesSum(weights[d]) = One

C3_WitnessScaled ==
  /\ Returned_
  /\ \E d \in ScheduleDates :
       Lt(Zero, SeriesSum(weights[d])) /\ Lt(SeriesSum(weights[d]), One)

\* C4 (eligibility): an asset whose membership flag is 0 at an anchor never
\* has a positive weight at that anchor, neither in the weights computed at
\* the anchor nor in the schedule rows that hold them.
C4_FlagZeroNoWeight ==
  /\ \A d \in DOMAIN portfolio_weights :
       \A a \in DOMAIN portfolio_weights[d] :
         composition_data[d][a] # 1 => ~Positive(portfolio_weights[d][a])
  /\ Returned_ =>
       \A d \in ScheduleDates : \A a \in Columns :
         composition_data[rebalance_period[d]][a] # 1 => ~Positive(weights[d][a])

\* an anchor at which an asset with flag 0 has the best score while other
\* assets are held
C4_Witness ==
  /\ Returned_
  /\ cfg.entry = "construct_portfolio"
  /\ \E d \in ScheduleDates : \E a \in Columns :
       /\ composition_data[d][a] = 0
       /\ \A b \in Columns : ~IsNaN(factor[d][b]) /\ Le(factor[d][b], factor[d][a])
       /\ \E b \in Columns : Positive(weights[d][b])

C4_WitnessConditional ==
  /\ Returned_
  /\ cfg.entry = "construct_conditional_portfolio"
  /\ \E d \in ScheduleDates : \E a \in Columns :
       /\ composition_data[d][a] = 0
       /\ \E b \in Columns : Positive(weights[d][b])

\* the price-table dates inside [start, end]
DatesInside ==
  LET lo == IF cfg.start_date = None THEN 1 ELSE cfg.start_date
      hi == IF cfg.end_date = None THEN NDates ELSE cfg.end_date
  IN  {d \in DOMAIN all_price_date : lo <= d /\ d <= hi}

\* C5 (RebalanceMap): after _prepare_portfolio_construction the anchors are
\* exactly the price-table dates inside [start, end]; the map is total on the
\* filtered axis, sends every date to the latest anchor <= it, and is
\* non-decreasing.
C5_RebalanceMap ==
  pc \in {"loop", "done", "raised"} =>
    /\ ScheduleDates = DatesInside
    /\ DOMAIN rebalance_period = ScheduleDates
    /\ {rebalance_period[d] : d \in ScheduleDates} = DatesInside
    /\ \A d \in ScheduleDates :
         /\ rebalance_period[d] <= d
         /\ \A a \in DatesInside : a <= d => a <= rebalance_period[d]
    /\ \A d1, d2 \in ScheduleDates :
         d1 <= d2 => rebalance_period[d1] <= rebalance_period[d2]

\* a prepared map over several dates of a window that starts after the first
\* price date
C5_Witness ==
  /\ pc = "loop"
  /\ cfg.start_date = 2
  /\ Len(filtered_dates) >= 2
  /\ rebalance_period[filtered_dates[Len(filtered_dates)]] =
       filtered_dates[Len(filtered_dates)]

\* C6 (value series): the value is 1.0 at the first schedule date and at
\* every later date it is the previous value times (1 + portfolio return).
C6_ValueSeries ==
  Returned_ =>
    \A i \in 1..Len(filtered_dates) :
      portfolio_value[filtered_dates[i]] =
        IF i = 1 THEN One
        ELSE Mul(portfolio_value[filtered_dates[i - 1]],
                 Add(One, portfolio_returns[filtered_dates[i]]))

\* a value series that moved twice
C6_Witness ==
  /\ Returned_
  /\ Len(filtered_dates) >= 3
  /\ portfolio_returns[filtered_dates[2]] # Zero
  /\ portfolio_returns[filtered_dates[3]] # Zero

\* the direct call has returned from the score-mapping shape
ScoreCall == pc = "returned" /\ call.args.is_series
ValidOf(scores) == {a \in DOMAIN scores : ~IsNaN(scores[a])}

\* C7 (top-N selection): called with a score mapping, each of the three
\* weighting functions selects min(n, v) assets among the v with a valid
\* score (all v when n is unspecified), no unselected valid asset is better
\* than a selected one in the requested order, and the selection raises
\* nothing (the one error such a call can end in comes after the selection:
\* the eigenvalue computation of minimum_variance_weight, see C14).
C7_TopN ==
  ScoreCall =>
    LET scores == call.args.scores_or_tickers
        valid == ValidOf(scores)
        v == Cardinality(valid)
        n == call.args.top_n
        sel == ret.selected_tickers
    IN  /\ ret.raised \in {"", "LinAlgError"}
        /\ sel \subseteq valid
        /\ Cardinality(sel) = IF n = None THEN v ELSE Min(n, v)
        /\ \A x \in sel : \A y \in valid \ sel :
             IF call.args.sort_ascending
             THEN Le(scores[x], scores[y]) ELSE Le(scores[y], scores[x])

\* fewer valid scores than requested, and a proper selection among unequal scores
C7_Witness ==
  /\ ScoreCall
  /\ call.args.top_n # None
  /\ Cardinality(ValidOf(call.args.scores_or_tickers)) < call.args.top_n
  /\ ret.selected_tickers # {}

C7_WitnessProper ==
  /\ ScoreCall
  /\ call.args.sort_ascending
  /\ ret.selected_tickers # {}
  /\ \E y \in ValidOf(call.args.scores_or_tickers) \ ret.selected_tickers :
       \E x \in ret.selected_tickers :
         Lt(call.args.scores_or_tickers[x], call.args.scores_or_tickers[y])

EqualCall == pc = "returned" /\ call.fn = "equal_weight"

\* C8 (equal weight): for a non-empty selection of size k, equal_weight
\* returns 1/k for every selected asset and 0 for every other asset of the
\* mapping, and the weights sum to 1.
C8_EqualWeight ==
  (EqualCall /\ ret.selected_tickers # {}) =>
    /\ ret.raised = ""
    /\ \A a \in ret.selected_tickers :
         a \in DOMAIN ret.weights
         /\ ret.weights[a] = Rat(1, Cardinality(ret.selected_tickers))
    /\ \A a \in DOMAIN ret.weights \ ret.selected_tickers : ret.weights[a] = Zero
    /\ SeriesSum(ret.weights) = One

\* a selection of two among three scored assets
C8_Witness ==
  /\ EqualCall
  /\ Cardinality(ret.selected_tickers) = 2
  /\ Cardinality(DOMAIN ret.weights) = 3

\* the assets the call was given: the index of the scores or the listed tickers
Given ==
  IF call.args.is_series THEN DOMAIN call.args.scores_or_tickers
  ELSE call.args.scores_or_tickers

\* C9 (empty selection): when nothing is selected, equal_weight raises
\* nothing and returns a mapping that is 0 on every asset it was given, in
\* both call shapes.
C9_EmptySelection ==
  (EqualCall /\ ret.selected_tickers = {}) =>
    /\ ret.raised = ""
    /\ \A a \in Given : a \in DOMAIN ret.weights /\ ret.weights[a] = Zero

\* C10 (full mapping): every cell of the returned WeightSchedule is a
\* defined number.
C10_DefinedCells ==
  Returned_ => \A d \in ScheduleDates : \A a \in Columns : ~IsNaN(weights[d][a])

MarketCapCall == pc = "returned" /\ call.fn = "market_cap_weight"

\* the capitalization of a, a missing one counted as 0
CapOf(a) == IF market_cap_data[a] = NaN THEN Zero ELSE market_cap_data[a]
TotalCap(sel) == SumSkipNa([a \in sel |-> CapOf(a)], sel)

\* C11 (capitalization weight): on a non-empty selection market_cap_weight
\* raises nothing and leaves no selected weight undefined; with a total
\* capitalization > 0 every selected asset gets cap / total and the weights
\* sum to 1; with a total <= 0 the selected assets get the equal weight 1/k.
C11_MarketCap ==
  (MarketCapCall /\ ret.selected_tickers # {}) =>
    LET sel == ret.selected_tickers
        total == TotalCap(sel)
    IN  /\ ret.raised = ""
        /\ \A a \in sel : a \in DOMAIN ret.weights /\ ~IsNaN(ret.weights[a])
        /\ \A a \in DOMAIN ret.weights \ sel : ret.weights[a] = Zero
        /\ SeriesSum(ret.weights) = One
        /\ \A a \in sel :
             ret.weights[a] = IF Lt(Zero, total) THEN Div(CapOf(a), total)
                              ELSE equal_weight(FALSE, sel, None, FALSE).weights[a]

\* two selected assets whose capitalizations are zero or missing
C11_Witness ==
  /\ MarketCapCall
  /\ Cardinality(ret.selected_tickers) >= 2
  /\ \E a \in ret.selected_tickers : market_cap_data[a] = NaN
  /\ TotalCap(ret.selected_tickers) = Zero

\* a selected asset with a missing capitalization next to one with a positive one
C11_WitnessProportional ==
  /\ MarketCapCall
  /\ \E a \in ret.selected_tickers : market_cap_data[a] = NaN
  /\ Lt(Zero, TotalCap(ret.selected_tickers))

MinVarCall == pc = "returned" /\ call.fn = "minimum_variance_weight"
MinVarWindow == LookbackDates(all_price_date, call.current_date, call.lookback_months)

\* the selected assets with at least len(window) // 2 prices in the window
Sufficient ==
  {a \in ret.selected_tickers :
     Cardinality({d \in SeqSet(MinVarWindow) : all_price_date[d][a] # NaN})
       >= Len(MinVarWindow) \div 2}

\* the selected assets dropped for missing price history (with fewer than 2
\* price rows the function returns before it drops anything)
Dropped == IF Len(MinVarWindow) < 2 THEN {} ELSE ret.selected_tickers \ Sufficient

\* the call fell back for lack of history
HistoryFallback ==
  \/ Len(MinVarWindow) < 2
  \/ Cardinality(Sufficient) < 2
  \/ Cardinality(MinVarRows(ret.selected_tickers, all_price_date, call.current_date,
                            call.lookback_months)) < 2

\* C12 (long-only, fully invested): whenever minimum_variance_weight returns
\* for a non-empty selection, every weight is in [0, 1], the weights sum to 1
\* and the selected assets dropped for missing price history have weight 0.
C12_LongOnly ==
  (MinVarCall /\ ret.raised = "" /\ ret.selected_tickers # {}) =>
    /\ \A a \in DOMAIN ret.weights : Le(Zero, ret.weights[a]) /\ Le(ret.weights[a], One)
    /\ SeriesSum(ret.weights) = One
    /\ \A a \in Dropped : ret.weights[a] = Zero

\* what does hold: weights in [0, 1] that sum to 1, and a dropped asset has
\* weight 0 unless the call fell back for lack of history
C12_Budget ==
  (MinVarCall /\ ret.raised = "" /\ ret.selected_tickers # {}) =>
    /\ \A a \in DOMAIN ret.weights : Le(Zero, ret.weights[a]) /\ Le(ret.weights[a], One)
    /\ SeriesSum(ret.weights) = One
    /\ ~HistoryFallback => \A a \in Dropped : ret.weights[a] = Zero

\* C13 (history fallback): when fewer than 2 return periods or fewer than 2
\* assets with sufficient history exist, the result is the equal weight over
\* the assets that remain after the drop, and the dropped assets have weight 0.
C13_FallbackOverRemaining ==
  (MinVarCall /\ ret.raised = "" /\ ret.selected_tickers # {} /\ HistoryFallback) =>
    LET remaining == ret.selected_tickers \ Dropped
    IN  /\ \A a \in remaining : ret.weights[a] = Rat(1, Cardinality(remaining))
        /\ \A a \in DOMAIN ret.weights \ remaining : ret.weights[a] = Zero

\* what the fallback does: the equal weight over the whole selection
C13_FallbackOverSelection ==
  (MinVarCall /\ ret.selected_tickers # {} /\ HistoryFallback) =>
    /\ ret.raised = ""
    /\ \A a \in ret.selected_tickers :
         ret.weights[a] = Rat(1, Cardinality(ret.selected_tickers))
    /\ \A a \in DOMAIN ret.weights \ ret.selected_tickers : ret.weights[a] = Zero

\* C14 (no propagated failure): for a non-empty selection
\* minimum_variance_weight raises nothing.
C14_NeverRaises ==
  (MinVarCall /\ ret.selected_tickers # {}) => ret.raised = ""

\* the overlay's call: its input weights, its lookback window, and the
\* variance of the input weights under the window's annualized covariance
OverlayIn == call.args.initial_weights
OverlayWindow == LookbackDates(all_price_date, call.current_date, call.lookback_months)
OverlayCovered ==
  DOMAIN OverlayIn \cap CovarianceAssets(all_price_date, call.current_date,
                                         call.lookback_months)
OverlayVariance ==
  LET held == {a \in OverlayCovered : OverlayIn[a] # NaN /\ OverlayIn[a] # Zero}
  IN  PortfolioVariance(OverlayIn,
                        CovMatrix(all_price_date, OverlayWindow,
                                  ReturnRows(all_price_date, call.current_date,
                                             call.lookback_months), held),
                        held)

\* the cases in which the overlay has nothing to scale
OverlayNoOp ==
  \/ SeriesSum(OverlayIn) = Zero
  \/ Len(OverlayWindow) < 2
  \/ ReturnRows(all_price_date, call.current_date, call.lookback_months) = {}
  \/ OverlayCovered = {}
  \/ ~Lt(Zero, OverlayVariance)

\* C15 (no-op cases): volatility_scaling_weight returns its input unchanged
\* when the weights sum to 0, the window has fewer than 2 price rows or gives
\* no return row, no weighted asset has covariance data, or the current
\* volatility is 0.
C15_Unchanged ==
  (pc = "scaled" /\ OverlayNoOp) => ret.weights = OverlayIn

\* invested weights over a window of at least 2 price rows whose volatility is 0
C15_Witness ==
  /\ pc = "scaled"
  /\ call.args.target_volatility # Zero
  /\ SeriesSum(OverlayIn) # Zero
  /\ Len(OverlayWindow) >= 2
  /\ OverlayCovered # {}
  /\ ~Lt(Zero, OverlayVariance)

\* a window whose price rows give no return row
C15_WitnessNoReturns ==
  /\ pc = "scaled"
  /\ SeriesSum(OverlayIn) # Zero
  /\ Len(OverlayWindow) >= 2
  /\ ReturnRows(all_price_date, call.current_date, call.lookback_months) = {}

\* input x (targetVol / currentVol), for a current volatility other than 0
OverlayProduct ==
  [a \in DOMAIN OverlayIn |->
     Div(Mul(OverlayIn[a], call.args.target_volatility),
         CurrentVolatility(OverlayIn, all_price_date, call.current_date,
                           call.lookback_months))]

\* C16 (delever only): for weights >= 0 and a target >= 0 the overlay returns
\* weights >= 0 that are a common multiple of the input weights; whenever it
\* changes them they sum to at most 1; and when it rescales, the result is
\* input x (targetVol / currentVol) exactly when that product sums to <= 1.
C16_Rescaled ==
  pc = "scaled" =>
    /\ DOMAIN ret.weights = DOMAIN OverlayIn
    /\ \A a \in DOMAIN OverlayIn :
         /\ Le(Zero, ret.weights[a])
         /\ OverlayIn[a] = Zero => ret.weights[a] = Zero
         /\ \A b \in DOMAIN OverlayIn :
              Mul(ret.weights[a], OverlayIn[b]) = Mul(ret.weights[b], OverlayIn[a])
    /\ ret.weights # OverlayIn => Le(SeriesSum(ret.weights), One)
    /\ ~OverlayNoOp =>
         ((ret.weights = OverlayProduct) <=> Le(SeriesSum(OverlayProduct), One))

\* a call that scales up without reaching 1, and one that is normalized
C16_Witness ==
  /\ pc = "scaled"
  /\ ~OverlayNoOp
  /\ Lt(SeriesSum(OverlayIn), SeriesSum(ret.weights))
  /\ Lt(SeriesSum(ret.weights), One)

C16_WitnessNormalized ==
  /\ pc = "scaled"
  /\ ~OverlayNoOp
  /\ Lt(One, SeriesSum(OverlayProduct))
  /\ SeriesSum(ret.weights) = One
  /\ Lt(One, SeriesSum(OverlayIn))

\* the second call's target is the volatility realized by the first call's output
TargetIsRealized ==
  call.args.target_volatility =
    (IF Lt(Zero, OverlayVariance) THEN Sqrt(OverlayVariance) ELSE Zero)

\* C17 (idempotence): applied to its own output with the volatility realized
\* by that output as the target, the overlay returns the output unchanged.
C17_Idempotent ==
  (pc = "rescaled" /\ TargetIsRealized) => ret.weights = OverlayIn

\* a second call on weights that the first call had scaled
C17_Witness ==
  /\ pc = "rescaled"
  /\ TargetIsRealized
  /\ call.args.target_volatility # Zero
  /\ call.args.target_volatility # call.original.target_volatility
  /\ call.original.initial_weights # OverlayIn

ConditionalRun ==
  pc \in {"loop", "done"} /\ cfg.entry = "construct_conditional_portfolio"

\* the assets that are eligible at d and have all three scores
Scored(d) ==
  {a \in Columns : /\ composition_data[d][a] = 1
                   /\ value_factor[d][a] # NaN
                   /\ momentum_factor[d][a] # NaN
                   /\ profitability_factor[d][a] # NaN}

\* C18 (too few names): at an anchor of construct_conditional_portfolio with
\* fewer than 10 assets that are eligible and have a value, a momentum and a
\* profitability score, nothing is selected and the anchor's weight vector is
\* 0 on every column of the price table (no weighting, no overlay); every
\* date held at that anchor carries the zero row.
C18_TooFewNames ==
  ConditionalRun =>
    /\ \A d \in DOMAIN portfolio_weights :
         Cardinality(Scored(d)) < 10 =>
           /\ selection[d] = {}
           /\ portfolio_weights[d] = [a \in Columns |-> Zero]
    /\ pc = "done" =>
         \A d \in ScheduleDates :
           Cardinality(Scored(rebalance_period[d])) < 10 =>
             \A a \in Columns : weights[d][a] = Zero

\* a finished run with the overlay requested in which one anchor had 9 scored
\* assets and another anchor holds assets
C18_Witness ==
  /\ ConditionalRun /\ pc = "done"
  /\ cfg.volatility_scaling
  /\ \E d \in DOMAIN portfolio_weights :
       Cardinality(Scored(d)) = 9 /\ portfolio_weights[d] = [a \in Columns |-> Zero]
  /\ \E d \in DOMAIN portfolio_weights : selection[d] # {}

\* the anchors the loop has passed that had at least 10 scored assets
BucketedAnchors == {d \in DOMAIN portfolio_weights : Cardinality(Scored(d)) >= 10}

\* b splits parent three ways: pairwise disjoint buckets that cover it, with
\* n names in the high and in the low bucket
ThreeWay(b, parent, n) ==
  /\ b.high \cap b.low = {} /\ b.high \cap b.neutral = {} /\ b.neutral \cap b.low = {}
  /\ b.high \cup b.neutral \cup b.low = parent
  /\ Cardinality(b.high) = n /\ Cardinality(b.low) = n

Floor30(n) == (3 * n) \div 10

\* the value split of 20 names with distinct scores
SplitOfTwenty == ValueBuckets(Ranked(1..20), 1..20, [a \in 1..20 |-> a])

\* C19 (30/30/40 splits): at every anchor that is bucketed, whatever order
\* equal scores come out in, the value split of the common set and the
\* momentum and profitability splits of each value bucket are pairwise
\* disjoint, cover their parent, and have floor(0.3 n) names in high and in low
\* for the value split and max(1, floor(0.3 m)) for the nested ones; 20 names
\* split 6/8/6.
C19_Splits ==
  ConditionalRun =>
    /\ \A d \in BucketedAnchors : \A tie \in TieOrders :
         LET common == Scored(d)
             v == ValueBuckets(value_factor[d], common, tie)
         IN  /\ ThreeWay(v, common, Floor30(Cardinality(common)))
             /\ \A vg \in Groups : \A scores \in {momentum_factor[d], profitability_factor[d]} :
                  ThreeWay(NestedBuckets(scores, v[vg], tie), v[vg],
                           Max(1, Floor30(Cardinality(v[vg]))))
    /\ BucketedAnchors # {} =>
         /\ Cardinality(SplitOfTwenty.high) = 6
         /\ Cardinality(SplitOfTwenty.neutral) = 8
         /\ Cardinality(SplitOfTwenty.low) = 6

\* a bucketed anchor with tied value scores whose value-high bucket has 3
\* names (floor(0.3 x 3) = 0, so the nested buckets take the minimum of 1) and
\* whose value-neutral bucket has 5
C19_Witness ==
  /\ ConditionalRun
  /\ \E d \in BucketedAnchors : \E tie \in TieOrders :
       LET v == ValueBuckets(value_factor[d], Scored(d), tie)
       IN  /\ \E a, b \in Scored(d) : a # b /\ value_factor[d][a] = value_factor[d][b]
           /\ Cardinality(v.high) = 3 /\ Cardinality(v.neutral) = 5
           /\ Cardinality(NestedBuckets(momentum_factor[d], v.high, tie).high) = 1
           /\ selection[d] # {}

\* the assets with a positive weight at anchor d
Held(d) == {a \in DOMAIN portfolio_weights[d] : Positive(portfolio_weights[d][a])}

\* value-high names that are neither momentum-low nor profitability-low inside
\* the value-high group
HighNotLow(d, tie) ==
  LET v == ValueBuckets(value_factor[d], Scored(d), tie)
  IN  (v.high \ NestedBuckets(momentum_factor[d], v.high, tie).low)
        \ NestedBuckets(profitability_factor[d], v.high, tie).low

\* the value-neutral and value-low names, whatever the order of tied scores
NeverHigh(d) ==
  Scored(d) \ UNION {ValueBuckets(value_factor[d], Scored(d), tie).high : tie \in TieOrders}

\* the weighting method is equal weighting (also the fallback of a
\* capitalization request without a capitalization table)
EqualRun ==
  /\ cfg.weighting_method # "min_variance"
  /\ ~(cfg.weighting_method = "market_cap" /\ cfg.has_mcap)

\* C20 as stated: at every bucketed anchor the assets with a positive weight
\* are exactly the value-high names that are neither momentum-low nor
\* profitability-low.
C20_HeldIsEligible ==
  ConditionalRun =>
    \A d \in BucketedAnchors : \E tie \in TieOrders : Held(d) = HighNotLow(d, tie)

\* C20 (buy list): at every bucketed anchor the selection handed to the
\* weighting method is exactly the value-high names that are neither
\* momentum-low nor profitability-low inside the value-high group; every asset
\* with a positive weight is one of them, so no value-neutral or value-low
\* name is held; under equal weighting every one of them has a positive
\* weight.
C20_BuyList ==
  ConditionalRun =>
    \A d \in BucketedAnchors :
      /\ \E tie \in TieOrders : selection[d] = HighNotLow(d, tie)
      /\ Held(d) \subseteq selection[d]
      /\ Held(d) \cap NeverHigh(d) = {}
      /\ EqualRun => Held(d) = selection[d]

\* a bucketed anchor weighted by capitalization where a selected asset has no
\* capitalization and so no weight, while another selected asset is held and
\* a value-high name was left out of the selection
C20_Witness ==
  /\ ConditionalRun
  /\ cfg.weighting_method = "market_cap" /\ cfg.has_mcap
  /\ \E d \in BucketedAnchors :
       /\ Held(d) # {}
       /\ Held(d) # selection[d]
       /\ \E tie \in TieOrders :
            /\ selection[d] = HighNotLow(d, tie)
            /\ selection[d] # ValueBuckets(value_factor[d], Scored(d), tie).high

\* the same under equal weighting: the held assets are the whole selection
C20_WitnessEqual ==
  /\ ConditionalRun /\ EqualRun
  /\ \E d \in BucketedAnchors : Held(d) # {} /\ Held(d) = selection[d]

\* the anchors of the run that have no row in the universe table
AbsentAnchors == {d \in DatesInside : d \notin DOMAIN composition_data}

\* C21 (missing date): a run with an anchor that is absent from the universe
\* table never returns; it ends with the KeyError of get_tickers_at_date at
\* the first such anchor, the anchors before it processed and none after it.
C21_MissingDate ==
  /\ AbsentAnchors # {} => pc # "done"
  /\ (pc = "loop" /\ AbsentAnchors # {}) =>
       \A d \in DOMAIN portfolio_weights : \A x \in AbsentAnchors : d < x
  /\ (pc = "raised" /\ AbsentAnchors # {}) =>
       /\ ret.raised = "KeyError"
       /\ Head(todo) \in AbsentAnchors
       /\ DOMAIN portfolio_weights = {d \in DatesInside : d < Head(todo)}
       /\ portfolio_value = << >>

\* a conditional run that processed an anchor and then raised at the absent one
C21_Witness ==
  /\ pc = "raised"
  /\ cfg.entry = "construct_conditional_portfolio"
  /\ AbsentAnchors # {}
  /\ DOMAIN portfolio_weights # {}

C21_WitnessSingle ==
  /\ pc = "raised"
  /\ cfg.entry = "construct_portfolio"
  /\ AbsentAnchors # {}

\* C22 (empty axis): when no price date lies inside [start, end] (an empty
\* price table, or a window without a price date) the run raises nothing,
\* the RebalanceMap is empty, no anchor is processed, and the returned
\* WeightSchedule and PortfolioValueSeries are empty.
C22_EmptyAxis ==
  DatesInside = {} =>
    /\ pc # "raised"
    /\ pc \in {"loop", "done"} =>
         /\ filtered_dates = << >>
         /\ DOMAIN rebalance_period = {}
         /\ todo = << >>
         /\ DOMAIN portfolio_weights = {}
    /\ pc = "done" =>
         /\ DOMAIN weights = {}
         /\ DOMAIN portfolio_returns = {}
         /\ DOMAIN portfolio_value = {}

\* a run over a price table with dates, none of them inside the window, that
\* has returned
C22_Witness ==
  /\ pc = "done"
  /\ DOMAIN all_price_date # {}
  /\ DatesInside = {}

\* a run over an empty price table that has returned
C22_WitnessEmptyTable ==
  /\ pc = "done"
  /\ DOMAIN all_price_date = {}
  /\ cfg.start_date = None

\* the price of asset a at schedule position i
PriceAt(i, a) == all_price_date[filtered_dates[i]][a]

\* the assets whose price is present at position i and at the position before
Priced(i) ==
  {a \in Columns : i > 1 /\ ~IsNaN(PriceAt(i, a)) /\ ~IsNaN(PriceAt(i - 1, a))}

\* the sum over the assets of S of simple return times lagged weight
LaggedSum(i, S) ==
  LET held == {a \in S : ~IsNaN(weights[filtered_dates[i - 1]][a])}
  IN  SumSkipNa([a \in held |->
                   Mul(Sub(Div(PriceAt(i, a), PriceAt(i - 1, a)), One),
                       weights[filtered_dates[i - 1]][a])], held)

\* C27 (missing prices): once the run has returned, the portfolio return of
\* every schedule date is made of the assets priced at that date and at the
\* preceding one only (an asset with either price missing contributes 0), and
\* the value series is a defined number at every schedule date.
C27_MissingPrice ==
  Returned_ =>
    \A i \in 1..Len(filtered_dates) :
      /\ portfolio_returns[filtered_dates[i]] =
           IF i = 1 THEN Zero ELSE LaggedSum(i, Priced(i))
      /\ ~IsNaN(portfolio_value[filtered_dates[i]])

\* a returned run with a date at which a held asset has no price transition
\* while another held asset moves the portfolio
C27_Witness ==
  /\ Returned_
  /\ \E i \in 2..Len(filtered_dates) :
       /\ \E a \in Columns \ Priced(i) : Positive(weights[filtered_dates[i - 1]][a])
       /\ portfolio_returns[filtered_dates[i]] # Zero

\* what the two low sub-buckets can take out of a value-high bucket of
\* n common names leaves something, for every n from 10 to 60
LowsLeaveSome ==
  \A n \in 10..60 :
    LET h == Floor30(n) IN h >= 3 /\ 2 * Max(1, Floor30(h)) < h

\* C28 (non-empty buy list): at every anchor of construct_conditional_portfolio
\* with at least 10 scored assets something is selected, whatever the
\* weighting; under equal or capitalization weighting without the overlay the
\* anchor's weights sum to 1 there, and they sum to 0 exactly at the anchors
\* with fewer than 10 scored assets.
C28_NonEmptyBuyList ==
  ConditionalRun =>
    \A d \in DOMAIN portfolio_weights :
      /\ LowsLeaveSome
      /\ Cardinality(Scored(d)) >= 10 => selection[d] # {}
      /\ (cfg.weighting_method # "min_variance" /\ ~cfg.volatility_scaling) =>
           /\ Cardinality(Scored(d)) >= 10 => SeriesSum(portfolio_weights[d]) = One
           /\ (SeriesSum(portfolio_weights[d]) = Zero) <=> (Cardinality(Scored(d)) < 10)

\* a run weighted by capitalization without overlay that passed an anchor with
\* exactly 10 scored assets and an anchor with 9
C28_Witness ==
  /\ ConditionalRun
  /\ cfg.weighting_method = "market_cap" /\ cfg.has_mcap /\ ~cfg.volatility_scaling
  /\ \E d \in DOMAIN portfolio_weights :
       Cardinality(Scored(d)) = 10 /\ SeriesSum(portfolio_weights[d]) = One

\* the same with an anchor of 9 scored assets, under equal weighting
C28_WitnessTooFew ==
  /\ ConditionalRun
  /\ cfg.weighting_method = "equal" /\ ~cfg.volatility_scaling
  /\ \E d \in DOMAIN portfolio_weights :
       Cardinality(Scored(d)) = 9 /\ SeriesSum(portfolio_weights[d]) = Zero
  /\ \E d \in DOMAIN portfolio_weights : Cardinality(Scored(d)) > 10

\* the selector names no method of its own
NoOwnMethod ==
  \/ cfg.weighting_method = "market_cap" /\ ~cfg.has_mcap
  \/ cfg.weighting_method \notin {"market_cap", "min_variance"}

\* the weights after the overlay when it is requested
Overlaid(w, d) ==
  IF cfg.volatility_scaling
  THEN volatility_scaling_weight(w, all_price_date, d, cfg.target_volatility,
                                 cfg.volatility_lookback_months)
  ELSE w

\* what equal weighting gives at anchor d, for every order of tied scores
EqualOutcomes(d) ==
  IF cfg.entry = "construct_portfolio"
  THEN LET valid == {a \in Columns : composition_data[d][a] = 1}
           current_scores == ToNumeric(DropNa([a \in valid |-> factor[d][a]]))
       IN  {Overlaid(equal_weight(TRUE, current_scores, cfg.top_n, FALSE).weights, d)}
  ELSE IF Cardinality(Scored(d)) < 10 THEN {[a \in Columns |-> Zero]}
  ELSE {Overlaid(equal_weight(FALSE, HighNotLow(d, tie), None, FALSE).weights, d) :
          tie \in TieOrders}

\* C29 (selector): a run whose selector is "market_cap" without a
\* capitalization table, or any name other than "market_cap" and
\* "min_variance", raises nothing and stores at every anchor the equal-weight
\* result (with the overlay when requested).
C29_SelectorFallsToEqual ==
  (NoOwnMethod /\ AbsentAnchors = {}) =>
    /\ pc # "raised"
    /\ pc \in {"loop", "done"} =>
         \A d \in DOMAIN portfolio_weights : portfolio_weights[d] \in EqualOutcomes(d)

\* a finished run with an unknown selector that holds assets
C29_Witness ==
  /\ pc = "done"
  /\ cfg.weighting_method = "risk_parity"
  /\ \E d \in DOMAIN portfolio_weights : \E a \in DOMAIN portfolio_weights[d] :
       Positive(portfolio_weights[d][a])

\* a finished construct_portfolio run asked for capitalization weights
\* without a capitalization table
C29_WitnessNoTable ==
  /\ pc = "done"
  /\ cfg.entry = "construct_portfolio"
  /\ cfg.weighting_method = "market_cap" /\ ~cfg.has_mcap
  /\ \E d \in DOMAIN portfolio_weights : \E a \in DOMAIN portfolio_weights[d] :
       Positive(portfolio_weights[d][a])

\* the price table with every price of date d raised by 1
Repriced(prices, d) ==
  [x \in DOMAIN prices |->
     IF x = d THEN [a \in DOMAIN prices[x] |-> Add(prices[x][a], One)]
     ELSE prices[x]]

OverlayCall == pc = "scaled" /\ call.fn = "volatility_scaling_weight"

\* the call's outcome is an outcome of the same call over the table prices
SameOutcome(prices) ==
  /\ OverlayCall =>
       ret.weights = volatility_scaling_weight(call.args.initial_weights, prices,
                                               call.current_date,
                                               call.args.target_volatility,
                                               call.lookback_months)
  /\ MinVarCall =>
       ret \in minimum_variance_weight(call.args.is_series, call.args.scores_or_tickers,
                                       call.args.top_n, prices, call.current_date,
                                       call.lookback_months, call.args.sort_ascending)

\* C25 as stated: changing the prices of a date outside the half-open window
\* (asOf - lookbackMonths, asOf] leaves the outcome of minimum_variance_weight
\* and of volatility_scaling_weight unchanged.
C25_HalfOpenWindow ==
  \A d \in DOMAIN all_price_date :
    (d <= call.current_date - call.lookback_months \/ d > call.current_date) =>
      SameOutcome(Repriced(all_price_date, d))

\* what the code does: the window is closed, the outcome is unchanged by the
\* prices of the dates before asOf - lookbackMonths and after asOf
C25_ClosedWindow ==
  \A d \in DOMAIN all_price_date :
    (d < call.current_date - call.lookback_months \/ d > call.current_date) =>
      SameOutcome(Repriced(all_price_date, d))

\* the dates of the call's window, read closed at both ends
WindowDates ==
  {d \in DOMAIN all_price_date :
     d >= call.current_date - call.lookback_months /\ d <= call.current_date}

Present(a) == Cardinality({d \in WindowDates : ~IsNaN(all_price_date[d][a])})

\* the assets with at least half of the window's prices present
HalfPresent(S) == {a \in S : 2 * Present(a) >= Cardinality(WindowDates)}

\* the call got as far as dropping columns (lines 133 and 231)
OverlayDrops ==
  /\ OverlayCall
  /\ SeriesSum(call.args.initial_weights) # Zero
  /\ Cardinality(WindowDates) >= 2
MinVarDrops ==
  /\ MinVarCall /\ ret.raised = "" /\ ret.selected_tickers # {}
  /\ Cardinality(WindowDates) >= 2

\* C26 as stated: both functions estimate the covariance over the assets with
\* at least half of the window's prices present, and drop the others.
C26_SameThreshold ==
  /\ OverlayDrops =>
       CovarianceAssets(all_price_date, call.current_date, call.lookback_months)
         = HalfPresent(Assets)
  /\ MinVarDrops =>
       AvailableTickers(ret.selected_tickers, all_price_date, call.current_date,
                        call.lookback_months)
         = HalfPresent(ret.selected_tickers)

\* what the code does: the overlay keeps the assets with every price of the
\* window present; minimum variance keeps those with at least
\* floor(len / 2) prices present
C26_TwoThresholds ==
  /\ OverlayDrops =>
       CovarianceAssets(all_price_date, call.current_date, call.lookback_months)
         = {a \in Assets : Present(a) = Cardinality(WindowDates)}
  /\ MinVarDrops =>
       AvailableTickers(ret.selected_tickers, all_price_date, call.current_date,
                        call.lookback_months)
         = {a \in ret.selected_tickers : Present(a) >= Cardinality(WindowDates) \div 2}

\* C23 as stated: the index of the caller's price and universe tables is
\* after the construction and the run what it was before.
C23_InputsUntouched == pc # "call" => caller_tables.now = caller_tables.given

\* what the entry points leave alone: the cells of every input table
C23_CellsUntouched ==
  [][UNCHANGED <<all_price_date, composition_data, factor, value_factor,
                 momentum_factor, profitability_factor, market_cap_data>>]_vars

\* the outcomes the inputs and the date d allow at anchor d
OutcomesAt(d) == UNION {NewWeights(d, tie) : tie \in TieOrders}

\* every anchor of the run has one possible outcome
SingleOutcome == \A d \in DatesInside : Cardinality(OutcomesAt(d)) = 1

\* the anchor -> weights mapping of a run with single outcomes
OnlyMapping ==
  [d \in DatesInside |-> (CHOOSE r \in OutcomesAt(d) : TRUE).weights]

\* C24 (independent anchors): with the anchors processed in any order, the
\* weights stored for an anchor are an outcome of the inputs and that
\* anchor's date alone, whatever was processed before it and whatever
\* previous_weights holds; where each anchor has a single outcome, the
\* finished run has the anchor -> weights mapping, the WeightSchedule and the
\* value series that the inputs determine.
C24_OrderFree ==
  pc \in {"loop", "done"} =>
    /\ \A d \in DOMAIN portfolio_weights :
         Returned(portfolio_weights[d], selection[d]) \in OutcomesAt(d)
    /\ (pc = "done" /\ SingleOutcome) =>
         LET w == Broadcast(filtered_dates, rebalance_period, OnlyMapping, Columns)
             r == PortfolioReturns(filtered_dates, w, Columns)
         IN  /\ portfolio_weights = OnlyMapping
             /\ weights = w
             /\ portfolio_value = ByDate(filtered_dates, PortfolioValue(r))

\* a finished run whose last processed anchor was not the last date, with
\* anchors that hold different weights and one that selects nothing
C24_Witness ==
  /\ pc = "done"
  /\ SingleOutcome
  /\ Len(filtered_dates) >= 3
  /\ previous_weights # portfolio_weights[filtered_dates[Len(filtered_dates)]]
  /\ \E d \in DOMAIN portfolio_weights : selection[d] = {}
  /\ \E d \in DOMAIN portfolio_weights : selection[d] # {}

Clipped == pc = "calculator" /\ ret # << >>

\* C30 (clip cache): every call of clip_extreme_values clips its table against
\* the quantile bounds of that same table's contents, whatever tables were
\* built, clipped and dropped before it and whichever addresses they had.
C30_OwnBounds ==
  Clipped => ret.df_clipped = clip(call.df, Quantiles(call.df, call.percentiles))

\* what the cache does guarantee: the bounds it holds for a key were computed
\* from some table that lived at that address, at those percentiles
C30_BoundsOfSomeTable ==
  \A key \in DOMAIN quantile_cache :
    \E df \in ClipTables : quantile_cache[key] = Quantiles(df, <<key[2], key[3]>>)

\* a table is clipped against the bounds of the table that had its address
C30_StaleBounds ==
  /\ Clipped
  /\ ret.df_clipped # clip(call.df, Quantiles(call.df, call.percentiles))

====
